---- MODULE Spec2Model ----
(***************************************************************************)
(* Model of the kodiak job queue: the store-side Lua scripts, the          *)
(* RedisQueueRepository methods that call them and the Worker slot loop.   *)
(*                                                                         *)
(* The store is modelled with the key types of the real store: a key is    *)
(* absent, a sorted set or a list; a sorted-set command on a list key (or  *)
(* a list command on a sorted-set key) raises WRONGTYPE, which aborts the  *)
(* running script while keeping the writes the script already made.  An    *)
(* empty sorted set or list is an absent key.                              *)
(*                                                                         *)
(* Times are scaled: one unit of `now` stands for one lock duration.       *)
(***************************************************************************)
EXTENDS Integers, Sequences, FiniteSets, TLC

\* ---------------------------------------------------------------- bounds
MaxJobs == 2
MaxTime == 2
NumSlots == 2
MaxAttempts == 2
MaxPriority == 1
MaxDelay == 1
MaxPending == 1
MaxBackoff == 2
MaxBackoffAttempts == 3
MaxEvery == 2
MaxRate == 2
MaxWindow == 2
MaxLimit == 3
MaxStarts == 2
MaxStops == 1
MaxConcurrency == 2
MaxCloses == 2
MaxTimers == 4
MaxCapacity == 2
MaxNotify == 2

\* ------------------------------------------------------ program constants
\* priority band multiplier of the composite score (scaled from 10^13: it
\* only has to exceed every timestamp the model reaches)
PriorityBand == 100
\* WorkerOptions.lockDuration (scaled: 30000 ms is one time unit)
LockDuration == 1
\* WorkerOptions.prefetch (scaled from 10)
Prefetch == 2
\* promoteDelayedJobs(limit = 50)
PromoteLimit == 50
\* DEFAULT_DELAY_ON_LIMIT_MS (scaled: 500 ms is one time unit)
DelayOnLimit == 1

Jobs == 1..MaxJobs
\* client 0 uses the repository directly through fetchNext; clients
\* 1..NumSlots are worker slots (one worker of concurrency 1 each)
Direct == 0
Slots == 1..NumSlots
Clients == {Direct} \cup Slots
\* the clients of the mixed deployment: the direct consumer and one worker
Mixed == {Direct} \cup {c \in Slots : \A d \in Slots : c <= d}
NoJob == 0
\* extendLock without an owner token passes ''
NoToken == 0

VARIABLES
    now,          \* Date.now()
    wz, wl,       \* waiting key: sorted set (id -> score) / list
    az, al,       \* active key: sorted set (id -> lock expiry) / list
    dz,           \* delayed key: sorted set (id -> due time)
    notify,       \* length of the notification list
    hash,         \* job hashes
    pending,      \* client-side hash pipelines not yet executed
    pc, cur, buf, \* per client: position, job in hand, prefetch buffer
    got,          \* per client: ids returned by the fetch script
    invocations,  \* history: processor invocations per id
    fails,        \* history: processor invocations that threw, per id
    due,          \* history: due time of the last delay scheduling of a
                  \* job that was not delivered since
    ext,          \* the last extendLock call: id, owner token, result
    limiter,      \* rateLimiterOptions of the repository that has them
    window,       \* sliding-window key: timestamp -> number of members
    last,         \* the last rate-checked fetch: verdict and returned ids
    delivered,    \* history: jobs handed out by fetchNextJobs, per time
    bucket,       \* token-bucket key: tokens and last, or absent
    worker,       \* one Worker object: its fields, its slot loops, its events
    queue,        \* one Queue object: its scheduler, timers and connection
    returned      \* history: per id, the options AddJobUseCase.execute was
                  \* called with and the job entity it returned

vars == <<now, wz, wl, az, al, dz, notify, hash, pending, pc, cur, buf, got,
          invocations, fails, due, ext, limiter, window, last, delivered,
          bucket, worker, queue, returned>>

ratelimit == <<limiter, window, last, delivered, bucket>>

store == <<wz, wl, az, al, dz, notify, hash>>
lifecycle == <<worker, queue, returned>>
history == <<invocations, fails, due>>

\* ------------------------------------------------------------ store types
EmptyZ == [x \in {} |-> 0]

KeyType(z, l) ==
    IF Len(l) > 0 THEN "list"
    ELSE IF DOMAIN z # {} THEN "zset" ELSE "none"

ZADD(z, score, id) ==
    [x \in DOMAIN z \cup {id} |-> IF x = id THEN score ELSE z[x]]

ZREM(z, id) == [x \in DOMAIN z \ {id} |-> z[x]]

\* first member in (score, member) order
ZMin(z, S) ==
    CHOOSE m \in S : \A k \in S : z[m] < z[k] \/ (z[m] = z[k] /\ m <= k)

RECURSIVE ZSorted(_, _)
ZSorted(z, S) ==
    IF S = {} THEN <<>>
    ELSE LET m == ZMin(z, S) IN <<m>> \o ZSorted(z, S \ {m})

\* ZRANGEBYSCORE key lo hi LIMIT 0 limit
ZRANGEBYSCORE(z, lo, hi, limit) ==
    LET all == ZSorted(z, {x \in DOMAIN z : lo <= z[x] /\ z[x] <= hi})
    IN  IF Len(all) > limit THEN SubSeq(all, 1, limit) ELSE all

LPUSH(l, id) == <<id>> \o l

SeqToSet(s) == {s[i] : i \in 1..Len(s)}

InWaiting(j) == j \in DOMAIN wz \/ j \in SeqToSet(wl)
InActive(j) == j \in DOMAIN az \/ j \in SeqToSet(al)
InDelayed(j) == j \in DOMAIN dz

\* ------------------------------------------------------------- job hashes
\* no delayed_meta / rate_limit_reset_at field
NoMeta == [reason |-> "none", resetAt |-> 0]

NoHash ==
    [state |-> "none", priority |-> 0, retry_count |-> 0, max_attempts |-> 0,
     added_at |-> 0, completed_at |-> 0, lock_owner |-> -1,
     backoff_type |-> "none", backoff_delay |-> 0,
     repeat_every |-> 0, repeat_limit |-> 0, repeat_count |-> 0,
     delayed_meta |-> NoMeta]

\* fail_job.lua: tonumber(...) or default, for a hash that has no such field
HRetryCount(h) == h.retry_count
HMaxAttempts(h) == IF h.state = "none" THEN 1 ELSE h.max_attempts


\* ------------------------------------------------------------ the scripts
\* Each script is a function of the store it runs on.  It yields the keys
\* it rewrites, its return value and `err` (TRUE when a command raised).

\* faulty variant of add_job: no LPUSH on the notification list
add_job_quiet(id, score, isDelayed, fields) ==
    LET h == [fields EXCEPT !.state = IF isDelayed THEN "delayed" ELSE "waiting"]
    IN  IF isDelayed
        THEN [hash |-> [hash EXCEPT ![id] = h], dz |-> ZADD(dz, score, id),
              wz |-> wz, notify |-> notify, err |-> FALSE,
              ret |-> score % PriorityBand]
        ELSE IF KeyType(wz, wl) = "list"
        THEN [hash |-> [hash EXCEPT ![id] = h], dz |-> dz,
              wz |-> wz, notify |-> notify, err |-> TRUE, ret |-> -1]
        ELSE [hash |-> [hash EXCEPT ![id] = h], dz |-> dz,
              wz |-> ZADD(wz, score, id), notify |-> notify,
              err |-> FALSE, ret |-> -1]

\* add_job.lua
add_job(id, score, isDelayed, fields) ==
    LET h == [fields EXCEPT !.state = IF isDelayed THEN "delayed" ELSE "waiting"]
    IN  IF isDelayed
        THEN [hash |-> [hash EXCEPT ![id] = h], dz |-> ZADD(dz, score, id),
              wz |-> wz, notify |-> notify, err |-> FALSE,
              ret |-> score % PriorityBand]
        ELSE IF KeyType(wz, wl) = "list"
        THEN [hash |-> [hash EXCEPT ![id] = h], dz |-> dz,
              wz |-> wz, notify |-> notify, err |-> TRUE, ret |-> -1]
        ELSE [hash |-> [hash EXCEPT ![id] = h], dz |-> dz,
              wz |-> ZADD(wz, score, id), notify |-> notify + 1,
              err |-> FALSE, ret |-> -1]

\* move_to_active.lua: the loop from iteration i on
RECURSIVE move_to_active_loop(_, _, _, _, _, _)
move_to_active_loop(i, count, lockExpiresAt, w, a, ids) ==
    IF i > count \/ DOMAIN w = {}
    THEN [wz |-> w, az |-> a, ids |-> ids, err |-> FALSE]
    ELSE LET jobId == ZMin(w, DOMAIN w) IN
         IF KeyType(az, al) = "list"
         THEN [wz |-> ZREM(w, jobId), az |-> a, ids |-> ids, err |-> TRUE]
         ELSE move_to_active_loop(i + 1, count, lockExpiresAt, ZREM(w, jobId),
                                  ZADD(a, lockExpiresAt, jobId),
                                  Append(ids, jobId))

\* faulty variant of move_to_active: reads waiting without popping
move_to_active_peek(count, lockExpiresAt) ==
    IF KeyType(wz, wl) = "list"
    THEN [wz |-> wz, az |-> az, ids |-> <<>>, err |-> TRUE]
    ELSE [move_to_active_loop(1, count, lockExpiresAt, wz, az, <<>>)
             EXCEPT !.wz = wz]

move_to_active(count, lockExpiresAt) ==
    IF KeyType(wz, wl) = "list"
    THEN [wz |-> wz, az |-> az, ids |-> <<>>, err |-> TRUE]
    ELSE move_to_active_loop(1, count, lockExpiresAt, wz, az, <<>>)

\* faulty variant of move_job: ZRANGE instead of ZPOPMIN
move_job_peek(shouldPop, hsetOk) ==
    IF KeyType(wz, wl) # "zset" \/ KeyType(az, al) = "zset"
    THEN [wz |-> wz, al |-> al, notify |-> notify, hash |-> hash,
          id |-> NoJob, data |-> FALSE, err |-> KeyType(wz, wl) # "none"]
    ELSE LET jobId == ZMin(wz, DOMAIN wz) IN
         [wz |-> wz, al |-> LPUSH(al, jobId),
          notify |-> IF shouldPop /\ notify > 0 THEN notify - 1 ELSE notify,
          hash |-> IF hsetOk
                   THEN [hash EXCEPT ![jobId].state = "active"]
                   ELSE hash,
          id |-> jobId, data |-> hsetOk, err |-> FALSE]

\* move_job.lua (lines 31-64); hsetOk is the outcome of the pcall'ed HSET
move_job(shouldPop, hsetOk) ==
    IF KeyType(wz, wl) = "list"
    THEN [wz |-> wz, al |-> al, notify |-> notify, hash |-> hash,
          id |-> NoJob, data |-> FALSE, err |-> TRUE]
    ELSE IF DOMAIN wz = {}
    THEN [wz |-> wz, al |-> al, notify |-> notify, hash |-> hash,
          id |-> NoJob, data |-> FALSE, err |-> FALSE]
    ELSE LET jobId == ZMin(wz, DOMAIN wz) IN
         IF KeyType(az, al) = "zset"
         THEN [wz |-> ZREM(wz, jobId), al |-> al, notify |-> notify,
               hash |-> hash, id |-> NoJob, data |-> FALSE, err |-> TRUE]
         ELSE [wz |-> ZREM(wz, jobId), al |-> LPUSH(al, jobId),
               notify |-> IF shouldPop /\ notify > 0 THEN notify - 1 ELSE notify,
               hash |-> IF hsetOk
                        THEN [hash EXCEPT ![jobId].state = "active"]
                        ELSE hash,
               id |-> jobId, data |-> hsetOk, err |-> FALSE]

\* faulty variant of fail_job: the exponent is the new retry count
fail_job_exp_off(jobId, failedAt, forcedNextAttempt) ==
    LET retryCount == HRetryCount(hash[jobId])
        nextAttempt ==
            IF forcedNextAttempt > 0 THEN forcedNextAttempt
            ELSE IF hash[jobId].backoff_type = "fixed"
                 THEN failedAt + hash[jobId].backoff_delay
            ELSE IF hash[jobId].backoff_type = "exponential"
                 THEN failedAt + hash[jobId].backoff_delay * 2 ^ (retryCount + 1)
            ELSE failedAt
    IN  IF retryCount < HMaxAttempts(hash[jobId]) - 1
        THEN [az |-> ZREM(az, jobId), dz |-> ZADD(dz, nextAttempt, jobId),
              hash |-> [hash EXCEPT ![jobId].state = "delayed",
                                    ![jobId].retry_count = retryCount + 1],
              err |-> FALSE, ret |-> nextAttempt]
        ELSE [az |-> ZREM(az, jobId), dz |-> dz,
              hash |-> [hash EXCEPT ![jobId].state = "failed",
                                    ![jobId].retry_count = retryCount + 1],
              err |-> FALSE, ret |-> -1]

\* fail_job.lua
fail_job(jobId, failedAt, forcedNextAttempt) ==
    LET retryCount == HRetryCount(hash[jobId])
        maxAttempts == HMaxAttempts(hash[jobId])
        backoffType == hash[jobId].backoff_type
        backoffDelay == hash[jobId].backoff_delay
        newRetryCount == retryCount + 1
        nextAttempt ==
            IF forcedNextAttempt > 0 THEN forcedNextAttempt
            ELSE IF backoffType = "fixed" THEN failedAt + backoffDelay
            ELSE IF backoffType = "exponential"
                 THEN failedAt + backoffDelay * 2 ^ (newRetryCount - 1)
            ELSE failedAt
    IN  IF KeyType(az, al) = "list"
        THEN [az |-> az, dz |-> dz, hash |-> hash, err |-> TRUE, ret |-> -1]
        ELSE IF retryCount < maxAttempts - 1
        THEN [az |-> ZREM(az, jobId), dz |-> ZADD(dz, nextAttempt, jobId),
              hash |-> [hash EXCEPT ![jobId].state = "delayed",
                                    ![jobId].retry_count = newRetryCount],
              err |-> FALSE, ret |-> nextAttempt]
        ELSE [az |-> ZREM(az, jobId), dz |-> dz,
              hash |-> [hash EXCEPT ![jobId].state = "failed",
                                    ![jobId].retry_count = retryCount + 1],
              err |-> FALSE, ret |-> -1]

\* faulty variant of complete_job: reschedules while repeat_count < limit
complete_job_one_more(jobId, completedAt) ==
    LET repeatEvery == hash[jobId].repeat_every
        repeatLimit == hash[jobId].repeat_limit
        repeatCount == hash[jobId].repeat_count
    IN  IF repeatEvery > 0 /\ (repeatLimit = 0 \/ repeatCount < repeatLimit)
        THEN [az |-> ZREM(az, jobId),
              dz |-> ZADD(dz, completedAt + repeatEvery, jobId),
              hash |-> [hash EXCEPT ![jobId].state = "delayed",
                                    ![jobId].repeat_count = repeatCount + 1,
                                    ![jobId].completed_at = completedAt],
              err |-> FALSE, ret |-> 0]
        ELSE [az |-> ZREM(az, jobId), dz |-> dz,
              hash |-> [hash EXCEPT ![jobId].state = "completed",
                                    ![jobId].completed_at = completedAt],
              err |-> FALSE, ret |-> 1]

\* complete_job.lua
complete_job(jobId, completedAt) ==
    LET repeatEvery == hash[jobId].repeat_every
        repeatLimit == hash[jobId].repeat_limit
        repeatCount == hash[jobId].repeat_count
        shouldReschedule ==
            repeatEvery > 0 /\ (repeatLimit = 0 \/ repeatCount < repeatLimit - 1)
    IN  IF KeyType(az, al) = "list"
        THEN [az |-> az, dz |-> dz, hash |-> hash, err |-> TRUE, ret |-> -1]
        ELSE IF shouldReschedule
        THEN [az |-> ZREM(az, jobId),
              dz |-> ZADD(dz, completedAt + repeatEvery, jobId),
              hash |-> [hash EXCEPT ![jobId].state = "delayed",
                                    ![jobId].repeat_count = repeatCount + 1,
                                    ![jobId].completed_at = completedAt],
              err |-> FALSE, ret |-> 0]
        ELSE [az |-> ZREM(az, jobId), dz |-> dz,
              hash |-> [hash EXCEPT ![jobId].state = "completed",
                                    ![jobId].completed_at = completedAt],
              err |-> FALSE, ret |-> 1]

\* promote_delayed_jobs.lua: the loop over the due ids, from index i on
RECURSIVE promote_loop(_, _, _, _, _)
promote_loop(jobs, i, w, d, n) ==
    IF i > Len(jobs)
    THEN [wz |-> w, dz |-> d, notify |-> n, moved |-> jobs, err |-> FALSE]
    ELSE IF KeyType(wz, wl) = "list"
    THEN [wz |-> w, dz |-> d, notify |-> n, moved |-> <<>>, err |-> TRUE]
    ELSE promote_loop(jobs, i + 1, ZADD(w, 0, jobs[i]), ZREM(d, jobs[i]), n + 1)

\* faulty variant of promote_delayed_jobs: no upper score bound
promote_delayed_jobs_unbounded(t, limit) ==
    promote_loop(ZRANGEBYSCORE(dz, -1, PriorityBand * PriorityBand, limit),
                 1, wz, dz, notify)

\* faulty variant of promote_delayed_jobs: the ids stay in delayed
promote_delayed_jobs_keep(t, limit) ==
    LET jobs == ZRANGEBYSCORE(dz, -1, t, limit) IN
    IF KeyType(wz, wl) = "list" /\ jobs # <<>>
    THEN [wz |-> wz, dz |-> dz, notify |-> notify, moved |-> <<>>, err |-> TRUE]
    ELSE [wz |-> [j \in DOMAIN wz \cup SeqToSet(jobs) |->
                     IF j \in SeqToSet(jobs) THEN 0 ELSE wz[j]],
          dz |-> dz, notify |-> notify + Len(jobs), moved |-> jobs,
          err |-> FALSE]

promote_delayed_jobs(t, limit) ==
    \* every score is >= 0, so -1 stands for '-inf'
    promote_loop(ZRANGEBYSCORE(dz, -1, t, limit), 1, wz, dz, notify)

\* detect_and_recover_stalled_jobs.lua: the loop over the stalled ids
RECURSIVE recover_loop(_, _, _, _)
recover_loop(stalled, i, a, l) ==
    IF i > Len(stalled)
    THEN [az |-> a, wl |-> l, ids |-> stalled, err |-> FALSE]
    ELSE IF KeyType(wz, wl) = "zset"
    THEN [az |-> ZREM(a, stalled[i]), wl |-> l, ids |-> <<>>, err |-> TRUE]
    ELSE recover_loop(stalled, i + 1, ZREM(a, stalled[i]), LPUSH(l, stalled[i]))

detect_and_recover_stalled_jobs(t) ==
    IF KeyType(az, al) = "list"
    THEN [az |-> az, wl |-> wl, ids |-> <<>>, err |-> TRUE]
    ELSE recover_loop(ZRANGEBYSCORE(az, 0, t, MaxJobs), 1, az, wl)

\* faulty variant of extend_lock: the owner token is not compared
extend_lock_any(jobId, newExpiry, ownerToken) ==
    IF jobId \notin DOMAIN az
    THEN [az |-> az, ret |-> 0]
    ELSE [az |-> ZADD(az, newExpiry, jobId), ret |-> 1]

\* extend_lock.lua (lines 7-28); ret -1 stands for a raised error
extend_lock(jobId, newExpiry, ownerToken) ==
    IF KeyType(az, al) = "list"
    THEN [az |-> az, ret |-> -1]
    ELSE IF jobId \notin DOMAIN az
    THEN [az |-> az, ret |-> 0]
    ELSE IF ownerToken # NoToken /\ hash[jobId].lock_owner # ownerToken
    THEN [az |-> az, ret |-> 0]
    ELSE [az |-> ZADD(az, newExpiry, jobId), ret |-> 1]

\* move_waiting_to_delayed.lua; ARGV[2] (the metadata) is not read
move_waiting_to_delayed(nextAttempt, metaArg) ==
    IF KeyType(wz, wl) = "list"
    THEN [wz |-> wz, dz |-> dz, id |-> NoJob, meta |-> NoMeta, err |-> TRUE]
    ELSE IF DOMAIN wz = {}
    THEN [wz |-> wz, dz |-> dz, id |-> NoJob, meta |-> NoMeta, err |-> FALSE]
    ELSE LET jobId == ZMin(wz, DOMAIN wz)
         \* the reply is {jobId, nextAttempt}: it has no third element
         IN  [wz |-> ZREM(wz, jobId), dz |-> ZADD(dz, nextAttempt, jobId),
              id |-> jobId, meta |-> NoMeta, err |-> FALSE]


\* the sliding-window script (ZREMRANGEBYSCORE, ZCARD, ZADD, ZRANGE) on the
\* limiter key; a denial on an empty key raises: earliest[2] is nil and
\* nil + window is an arithmetic error, after the old entries were removed
RECURSIVE ZCARD(_, _)
ZCARD(w, t) == IF t = 0 THEN 0 ELSE w[t] + ZCARD(w, t - 1)

Earliest(w) ==
    CHOOSE t \in DOMAIN w : w[t] > 0 /\ \A u \in DOMAIN w : w[u] > 0 => t <= u

sliding_window(t, windowSizeMs, limit, requested) ==
    LET kept == [u \in DOMAIN window |->
                    IF u <= t - windowSizeMs THEN 0 ELSE window[u]]
        current == ZCARD(kept, MaxTime)
        added == [kept EXCEPT ![t] = @ + requested]
    IN  IF current + requested <= limit
        THEN [window |-> added, ret |-> 1,
              resetAt |-> Earliest(added) + windowSizeMs, err |-> FALSE]
        ELSE IF current = 0
        THEN [window |-> kept, ret |-> 0, resetAt |-> 0, err |-> TRUE]
        ELSE [window |-> kept, ret |-> 0,
              resetAt |-> Earliest(kept) + windowSizeMs, err |-> FALSE]

Min(a, b) == IF a <= b THEN a ELSE b
Max(a, b) == IF a >= b THEN a ELSE b

\* the token-bucket key does not exist
NoBucket == [exists |-> FALSE, tokens |-> 0, last |-> 0]

\* faulty variant of token_bucket: a denied call empties the bucket
token_bucket_drain(b, t, requested, rate, capacity) ==
    LET tokens == IF b.exists THEN b.tokens ELSE capacity
        lastAt == IF b.exists THEN b.last ELSE t
        refilled == Min(capacity, tokens + Max(0, t - lastAt) * rate)
    IN  IF refilled >= requested
        THEN [bucket |-> [exists |-> TRUE, tokens |-> refilled - requested,
                          last |-> t], ret |-> 1]
        ELSE [bucket |-> [exists |-> TRUE, tokens |-> 0, last |-> t],
              ret |-> 0]

\* token_bucket.lua on bucket b at time t; rate is in tokens per unit of
\* the clock (the script multiplies the elapsed ms by rate / 1000)
token_bucket(b, t, requested, rate, capacity) ==
    LET tokens == IF b.exists THEN b.tokens ELSE capacity
        lastAt == IF b.exists THEN b.last ELSE t
        delta == Max(0, t - lastAt)
        refill == delta * rate
        refilled == Min(capacity, tokens + refill)
    IN  IF refilled >= requested
        THEN [bucket |-> [exists |-> TRUE, tokens |-> refilled - requested,
                          last |-> t], ret |-> 1]
        ELSE [bucket |-> [exists |-> TRUE, tokens |-> refilled, last |-> t],
              ret |-> 0]

\* ------------------------------------------------------------------ Init
Times == 1..MaxTime

\* a repository constructed without rateLimiterOptions
NoLimiter ==
    [mode |-> "none", policy |-> "reject", limit |-> 0, windowSizeMs |-> 0,
     delayMs |-> 0, api |-> "fetchNextJobs"]

\* no rate-checked fetch yet
NoFetch == [verdict |-> "none", ids |-> <<>>, moved |-> NoJob]

InitQueue ==
    /\ now = 1
    /\ wz = EmptyZ /\ wl = <<>>
    /\ az = EmptyZ /\ al = <<>>
    /\ dz = EmptyZ
    /\ notify = 0
    /\ hash = [j \in Jobs |-> NoHash]
    /\ pending = {}
    /\ pc = [c \in Clients |-> "idle"]
    /\ cur = [c \in Clients |-> NoJob]
    /\ buf = [c \in Clients |-> <<>>]
    /\ got = [c \in Clients |-> <<>>]
    /\ invocations = [j \in Jobs |-> 0]
    /\ fails = [j \in Jobs |-> 0]
    /\ due = [j \in Jobs |-> 0]
    /\ ext = [id |-> NoJob, tok |-> NoToken, ret |-> 0]
    /\ window = [t \in Times |-> 0]
    /\ last = NoFetch
    /\ delivered = [t \in Times |-> 0]
    /\ bucket = NoBucket

\* ------------------------------------------------------ the Worker object
\* the slot indexes of Worker.start, and the slot loops (processNext calls)
\* that MaxStarts calls of start can create: loop l of worker w runs slot
\* SlotOf(w, l)
WSlots == 1..MaxConcurrency
Loops == 1..(MaxStarts * MaxConcurrency)
SlotOf(w, l) == ((l - 1) % w.concurrency) + 1

\* a Semaphore after its constructor
Semaphore(initialPermits) == [permits |-> initialPermits, waiters |-> <<>>]

\* the in-process delay timers of a RedisQueueRepository: delayedTimers
\* (job id -> timer handle, 0 for no entry), the timers set and not yet
\* fired or cleared, the callbacks that fired and await promoteDelayedJobs,
\* the number of setTimeout calls, and per slot the ttl markAsFailed computed
NoTimers ==
    [map |-> [j \in Jobs |-> 0],
     armed |-> {},
     firing |-> {},
     created |-> 0,
     ttl |-> [c \in Slots |-> 0]]

\* a Worker after its constructor with WorkerOptions.concurrency;
\* errorListener tells whether the application has registered a listener
\* for the "error" event
NewWorker(errorListener, concurrency) ==
    [isRunning |-> FALSE,
     concurrency |-> concurrency,
     errorListener |-> errorListener,
     blockingOpen |-> TRUE,
     ackOpen |-> TRUE,
     processingSemaphore |-> Semaphore(concurrency),
     bufferLock |-> Semaphore(1),
     jobBuffers |-> [i \in WSlots |-> <<>>],
     processingPromises |-> 0,
     lpc |-> [l \in Loops |-> "none"],
     job |-> [l \in Loops |-> NoJob],
     fetched |-> [l \in Loops |-> <<>>],
     outcome |-> [l \in Loops |-> "none"],
     startEvents |-> 0,
     startResult |-> "none",
     stopCalls |-> 0,
     stopPc |-> "none",
     stopAwaits |-> {},
     stopEvents |-> 0,
     completedEvents |-> [j \in Jobs |-> 0],
     failedEvents |-> [j \in Jobs |-> 0],
     ackTimers |-> NoTimers]

\* ------------------------------------------------------- the Queue object
\* a Queue after its constructor: startScheduler has set the interval and
\* subscribed to the expired events; no timer is set
NewQueue ==
    [schedulerInterval |-> TRUE,
     subscriber |-> TRUE,
     recoveringStalledJobs |-> FALSE,
     delayedTimers |-> {},
     repositoryTimers |-> {},
     timerKeys |-> {},
     connection |-> "open",
     closeResult |-> "none",
     closed |-> 0,
     lateCall |-> "none"]

\* JobOptions.backoff absent, and a job entity without backoff
NoBackoff == [type |-> "none", delay |-> 0]

\* AddJobUseCase.execute was not called with options for the id
NoReturn == [options |-> NoBackoff, backoff |-> NoBackoff]

\* no repository has rateLimiterOptions
Init ==
    /\ InitQueue
    /\ limiter = NoLimiter
    /\ worker = NewWorker(TRUE, 1)
    /\ queue = NewQueue
    /\ returned = [j \in Jobs |-> NoReturn]

\* the sliding-window options a repository is constructed with, and the
\* call its consumer fetches with: fetchNext (examples/sliding-window.ts)
\* or fetchNextJobs (FetchJobsUseCase)
Limiters ==
    [mode : {"sliding-window"}, policy : {"delay", "reject", "enqueue"},
     limit : 1..MaxRate, windowSizeMs : 1..MaxWindow, delayMs : 1..MaxDelay,
     api : {"fetchNext", "fetchNextJobs"}]

InitLimit ==
    /\ InitQueue
    /\ limiter \in Limiters
    /\ worker = NewWorker(TRUE, 1)
    /\ queue = NewQueue
    /\ returned = [j \in Jobs |-> NoReturn]

Bump(f, S) == [j \in Jobs |-> IF j \in S THEN f[j] + 1 ELSE f[j]]
Reset(f, S) == [j \in Jobs |-> IF j \in S THEN 0 ELSE f[j]]

\* the ids that were passed to add (add_job writes the hash first)
Added == {j \in Jobs : hash[j].state # "none"}

\* ------------------------------------------------------------- producers
\* AddJobUseCase.execute followed by RedisQueueRepository.add; producers
\* use unique ids
AddJob(id, priority, delay, attempts) ==
    /\ id \notin Added
    /\ LET score == priority * PriorityBand + (now + delay)
           isDelayed == delay > 0
           fields == [NoHash EXCEPT !.priority = priority, !.retry_count = 0,
                                    !.max_attempts = attempts, !.added_at = now]
           r == add_job(id, score, isDelayed, fields)
       IN  /\ hash' = r.hash
           /\ dz' = r.dz
           /\ wz' = r.wz
           /\ notify' = r.notify
           /\ due' = IF isDelayed THEN [due EXCEPT ![id] = now + delay] ELSE due
    /\ UNCHANGED <<lifecycle, ext, ratelimit, now, wl, az, al, pending, pc, cur, buf, got, invocations,
                   fails>>

\* ------------------------------------------------------------- the clock
Tick ==
    /\ now < MaxTime
    /\ now' = now + 1
    /\ UNCHANGED <<lifecycle, ext, ratelimit, store, pending, pc, cur, buf, got, history>>

\* ------------------------------------------------------ the worker slots
\* Worker.getJob, buffer not empty
TakeFromBuffer(c) ==
    /\ c \in Slots
    /\ pc[c] = "idle"
    /\ buf[c] # <<>>
    /\ cur' = [cur EXCEPT ![c] = Head(buf[c])]
    /\ buf' = [buf EXCEPT ![c] = Tail(buf[c])]
    /\ pc' = [pc EXCEPT ![c] = "hold"]
    /\ UNCHANGED <<lifecycle, ext, ratelimit, now, store, pending, got, history>>

\* Worker.getJob, buffer empty: RedisQueueRepository.fetchNextJobs up to the
\* return of the move_to_active script (the worker's repository has no
\* rate limiter)
FetchJobsScript(c) ==
    /\ c \in Slots
    /\ pc[c] = "idle"
    /\ buf[c] = <<>>
    /\ LET r == move_to_active(Prefetch, now + LockDuration) IN
       /\ wz' = r.wz
       /\ az' = r.az
       /\ IF r.err \/ r.ids = <<>>
          THEN UNCHANGED <<pc, got, due>>
          ELSE /\ pc' = [pc EXCEPT ![c] = "piping"]
               /\ got' = [got EXCEPT ![c] = r.ids]
               /\ due' = Reset(due, SeqToSet(r.ids))
    /\ UNCHANGED <<lifecycle, ext, ratelimit, now, wl, al, dz, notify, hash, pending, cur, buf,
                   invocations, fails>>

\* RedisQueueRepository.fetchNextJobs, the pipelined hset + hgetall, and
\* Worker.getJob handing out the first job and stashing the rest
FetchJobsPipeline(c) ==
    /\ c \in Slots
    /\ pc[c] = "piping"
    /\ hash' = [j \in Jobs |->
                  IF j \in SeqToSet(got[c])
                  THEN [hash[j] EXCEPT !.state = "active", !.lock_owner = c]
                  ELSE hash[j]]
    /\ cur' = [cur EXCEPT ![c] = Head(got[c])]
    /\ buf' = [buf EXCEPT ![c] = Tail(got[c])]
    /\ got' = [got EXCEPT ![c] = <<>>]
    /\ pc' = [pc EXCEPT ![c] = "hold"]
    /\ UNCHANGED <<lifecycle, ext, ratelimit, now, wz, wl, az, al, dz, notify, pending, history>>

\* Worker.processNext: semaphore acquired, the processor is invoked
Invoke(c) ==
    /\ pc[c] = "hold"
    /\ pc' = [pc EXCEPT ![c] = "run"]
    /\ invocations' = Bump(invocations, {cur[c]})
    /\ UNCHANGED <<lifecycle, ext, ratelimit, now, store, pending, cur, buf, got, fails, due>>

\* the processor resolves: CompleteJobUseCase -> markAsCompleted; when the
\* script raises, the worker's catch block takes over
ProcResolve(c) ==
    /\ pc[c] = "run"
    /\ LET r == complete_job(cur[c], now) IN
       /\ az' = r.az
       /\ dz' = r.dz
       /\ hash' = r.hash
       /\ due' = IF r.ret = 0 THEN [due EXCEPT ![cur[c]] = r.dz[cur[c]]] ELSE due
       /\ IF r.err
          THEN /\ pc' = [pc EXCEPT ![c] = "catch"]
               /\ UNCHANGED cur
          ELSE /\ pc' = [pc EXCEPT ![c] = "idle"]
               /\ cur' = [cur EXCEPT ![c] = NoJob]
    /\ UNCHANGED <<lifecycle, ext, ratelimit, now, wz, wl, al, notify, pending, buf, got, invocations,
                   fails>>

\* the processor throws
ProcThrow(c) ==
    /\ pc[c] = "run"
    /\ pc' = [pc EXCEPT ![c] = "catch"]
    /\ fails' = Bump(fails, {cur[c]})
    /\ UNCHANGED <<lifecycle, ext, ratelimit, now, store, pending, cur, buf, got, invocations, due>>

\* FailJobUseCase.execute: the job entity built by buildJobEntityFromRecord
\* carries no backoff, so no next attempt is passed to markAsFailed
ResolverNextAttempt == -1

\* the catch block of Worker.processNext: FailJobUseCase -> markAsFailed
CatchFail(c) ==
    /\ pc[c] = "catch"
    /\ LET r == fail_job(cur[c], now, ResolverNextAttempt) IN
       /\ az' = r.az
       /\ dz' = r.dz
       /\ hash' = r.hash
       /\ due' = IF r.ret >= 0 THEN [due EXCEPT ![cur[c]] = r.ret] ELSE due
    /\ pc' = [pc EXCEPT ![c] = "idle"]
    /\ cur' = [cur EXCEPT ![c] = NoJob]
    /\ UNCHANGED <<lifecycle, ext, ratelimit, now, wz, wl, al, notify, pending, buf, got, invocations,
                   fails>>

\* the process of a client dies while it has work in hand, and a fresh
\* process takes its place
Crash(c) ==
    /\ pc[c] # "idle"
    /\ pc' = [pc EXCEPT ![c] = "idle"]
    /\ cur' = [cur EXCEPT ![c] = NoJob]
    /\ buf' = [buf EXCEPT ![c] = <<>>]
    /\ got' = [got EXCEPT ![c] = <<>>]
    /\ UNCHANGED <<lifecycle, ext, ratelimit, now, store, pending, history>>

\* --------------------------------------------- the direct fetchNext client
\* RedisQueueRepository.moveWaitingToDelayedWithDelay up to the return of
\* the script; the hset of state=delayed follows as a pending pipeline
moveWaitingToDelayedWithDelay(delayMs, metadata) ==
    LET nextAttempt == now + delayMs
        r == move_waiting_to_delayed(nextAttempt, metadata)
    IN  /\ wz' = r.wz
        /\ dz' = r.dz
        /\ IF r.id = NoJob
           THEN UNCHANGED <<pending, due>>
           ELSE /\ pending' = pending \cup
                       {[op |-> "delay", ids |-> {r.id}, t |-> nextAttempt,
                         meta |-> r.meta]}
                /\ due' = [due EXCEPT ![r.id] = nextAttempt]

\* fetchNext / the second rate check: the limiter denies the token and the
\* policy delays the next waiting job (token bucket, or sliding window
\* with policy "delay"); the fetch returns null
FetchNextDenied(c) ==
    /\ c = Direct
    /\ pc[c] \in {"idle", "woken"}
    /\ Cardinality(pending) < MaxPending
    /\ moveWaitingToDelayedWithDelay(DelayOnLimit,
                                     [reason |-> "rate_limit", resetAt |-> 0])
    /\ pc' = [pc EXCEPT ![c] = "idle"]
    /\ UNCHANGED <<lifecycle, ext, ratelimit, now, wl, az, al, notify, hash, cur, buf, got, invocations,
                   fails>>

\* what fetchNext does with the result of move_job (processFetchResult)
FetchNextResult(c, r, elsePc) ==
    /\ wz' = r.wz
    /\ al' = r.al
    /\ notify' = r.notify
    /\ hash' = r.hash
    /\ IF r.id = NoJob
       THEN /\ pc' = [pc EXCEPT ![c] = IF r.err THEN "idle" ELSE elsePc]
            /\ UNCHANGED <<cur, got, due>>
       ELSE /\ due' = Reset(due, {r.id})
            /\ IF r.data
               THEN /\ pc' = [pc EXCEPT ![c] = "hold"]
                    /\ cur' = [cur EXCEPT ![c] = r.id]
                    /\ UNCHANGED got
               ELSE /\ pc' = [pc EXCEPT ![c] = "piping"]
                    /\ got' = [got EXCEPT ![c] = <<r.id>>]
                    /\ UNCHANGED cur

\* fetchNext, the limiter allows: the optimistic move_job; without a job
\* the call returns null (no timeout) or goes on to wait for a token
FetchNextOptimistic(c) ==
    /\ c = Direct
    /\ pc[c] = "idle"
    /\ \E hsetOk \in BOOLEAN, timeout \in {0, 1} :
          FetchNextResult(c, move_job(TRUE, hsetOk),
                          IF timeout > 0 THEN "blocked" ELSE "idle")
    /\ UNCHANGED <<lifecycle, ext, ratelimit, now, wl, az, dz, pending, buf, invocations, fails>>

\* fetchNext: brpop on the notification list returns a token
BrpopToken(c) ==
    /\ c = Direct
    /\ pc[c] = "blocked"
    /\ notify > 0
    /\ notify' = notify - 1
    /\ pc' = [pc EXCEPT ![c] = "woken"]
    /\ UNCHANGED <<lifecycle, ext, ratelimit, now, wz, wl, az, al, dz, hash, pending, cur, buf, got,
                   history>>

\* fetchNext: brpop times out, the call returns null
BrpopTimeout(c) ==
    /\ c = Direct
    /\ pc[c] = "blocked"
    /\ pc' = [pc EXCEPT ![c] = "idle"]
    /\ UNCHANGED <<lifecycle, ext, ratelimit, now, store, pending, cur, buf, got, history>>

\* fetchNext after the wake-up: move_job without popping a token
FetchNextAfterWake(c) ==
    /\ c = Direct
    /\ pc[c] = "woken"
    /\ \E hsetOk \in BOOLEAN : FetchNextResult(c, move_job(FALSE, hsetOk), "idle")
    /\ UNCHANGED <<lifecycle, ext, ratelimit, now, wl, az, dz, pending, buf, invocations, fails>>

\* processFetchResult without data from the script: pipelined hset + hgetall
FetchNextPipeline(c) ==
    /\ c = Direct
    /\ pc[c] = "piping"
    /\ hash' = [hash EXCEPT ![Head(got[c])].state = "active"]
    /\ cur' = [cur EXCEPT ![c] = Head(got[c])]
    /\ got' = [got EXCEPT ![c] = <<>>]
    /\ pc' = [pc EXCEPT ![c] = "hold"]
    /\ UNCHANGED <<lifecycle, ext, ratelimit, now, wz, wl, az, al, dz, notify, pending, buf, history>>

\* ------------------------------------------------------------- scheduler
\* RedisQueueRepository.promoteDelayedJobs up to the return of the script
\* (periodic tick, expiration event or in-process timer)
PromoteScript ==
    /\ Cardinality(pending) < MaxPending
    /\ LET r == promote_delayed_jobs(now, PromoteLimit) IN
       /\ wz' = r.wz
       /\ dz' = r.dz
       /\ notify' = r.notify
       /\ pending' = IF r.moved = <<>> THEN pending
                     ELSE pending \cup {[op |-> "promote",
                                         ids |-> SeqToSet(r.moved), t |-> now]}
    /\ UNCHANGED <<lifecycle, ext, ratelimit, now, wl, az, al, hash, pc, cur, buf, got, history>>

\* RedisQueueRepository.recoverStalledJobs up to the return of the script
RecoverScript ==
    /\ Cardinality(pending) < MaxPending
    /\ LET r == detect_and_recover_stalled_jobs(now) IN
       /\ az' = r.az
       /\ wl' = r.wl
       /\ pending' = IF r.ids = <<>> THEN pending
                     ELSE pending \cup {[op |-> "recover",
                                         ids |-> SeqToSet(r.ids), t |-> now]}
    /\ UNCHANGED <<lifecycle, ext, ratelimit, now, wz, al, dz, notify, hash, pc, cur, buf, got, history>>

\* the pipelined hash writes that follow a script: promoteDelayedJobs
\* (state=waiting), recoverStalledJobs (hincrby retry_count, state=waiting),
\* moveWaitingToDelayedWithDelay (state=delayed)
Pipeline(p) ==
    /\ p \in pending
    /\ pending' = pending \ {p}
    /\ hash' = [j \in Jobs |->
                  IF j \notin p.ids THEN hash[j]
                  ELSE IF p.op = "promote"
                       THEN [hash[j] EXCEPT !.state = "waiting"]
                  ELSE IF p.op = "recover"
                       THEN [hash[j] EXCEPT !.state = "waiting",
                                            !.retry_count = @ + 1]
                  ELSE IF p.meta # NoMeta
                       THEN [hash[j] EXCEPT !.state = "delayed",
                                            !.delayed_meta = p.meta]
                  ELSE [hash[j] EXCEPT !.state = "delayed"]]
    /\ UNCHANGED <<lifecycle, ext, ratelimit, now, wz, wl, az, al, dz, notify, pc, cur, buf, got, history>>

\* ---------------------------------------------------------------- backoff
\* RedisQueueRepository.add called with a job entity that carries backoff
\* (priority 0, no delay): the backoff fields go into the hash
AddWithBackoff(id, type, delay, attempts) ==
    /\ id \notin Added
    /\ LET fields == [NoHash EXCEPT !.max_attempts = attempts, !.added_at = now,
                                    !.backoff_type = type,
                                    !.backoff_delay = delay]
           r == add_job(id, now, FALSE, fields)
       IN  /\ hash' = r.hash
           /\ dz' = r.dz
           /\ wz' = r.wz
           /\ notify' = r.notify
    /\ UNCHANGED <<lifecycle, ext, ratelimit, now, wl, az, al, pending, pc, cur, buf, got, history>>

\* FailJobUseCase.execute lines 14-31: the delay the resolver computes for
\* attempt attemptsMade, -1 for null
ResolverDelay(type, delay, attemptsMade) ==
    IF type = "fixed" THEN delay
    ELSE IF type = "exponential" THEN delay * 2 ^ (attemptsMade - 1)
    ELSE -1

\* FailJobUseCase.execute for a job entity that carries the backoff and
\* the retry count of its hash: the nextAttempt passed to markAsFailed
\* ("-1" when undefined)
ResolvedNextAttempt(jobId) ==
    LET b == ResolverDelay(hash[jobId].backoff_type, hash[jobId].backoff_delay,
                           hash[jobId].retry_count + 1)
    IN  IF b = -1 THEN -1 ELSE now + b

\* FailJobUseCase.execute called by a slot with such a job entity
FailJobResolved(c) ==
    /\ pc[c] = "catch"
    /\ LET r == fail_job(cur[c], now, ResolvedNextAttempt(cur[c])) IN
       /\ az' = r.az
       /\ dz' = r.dz
       /\ hash' = r.hash
       /\ due' = IF r.ret >= 0 THEN [due EXCEPT ![cur[c]] = r.ret] ELSE due
    /\ pc' = [pc EXCEPT ![c] = "idle"]
    /\ cur' = [cur EXCEPT ![c] = NoJob]
    /\ UNCHANGED <<lifecycle, ext, ratelimit, now, wz, wl, al, notify, pending, buf, got, invocations,
                   fails>>

\* RedisQueueRepository.add called with a job entity that carries
\* repeat = {every, count: 0, limit}; limit 0 stands for no limit, which
\* add does not store
AddRecurring(id, every, limit) ==
    /\ id \notin Added
    /\ LET fields == [NoHash EXCEPT !.max_attempts = 1, !.added_at = now,
                                    !.repeat_every = every,
                                    !.repeat_limit = limit,
                                    !.repeat_count = 0]
           r == add_job(id, now, FALSE, fields)
       IN  /\ hash' = r.hash
           /\ dz' = r.dz
           /\ wz' = r.wz
           /\ notify' = r.notify
    /\ UNCHANGED <<lifecycle, ext, ratelimit, now, wl, az, al, pending, pc, cur, buf, got, history>>

\* ---------------------------------------------------------- rate limiter
\* faulty variant of consumeTokensIfAllowed: a failing script denies
consumeTokensIfAllowed_closed(rl, requested, fault) ==
    IF rl.mode = "none"
    THEN [allowed |-> TRUE, verdict |-> "allowed", resetAt |-> 0,
          window |-> window]
    ELSE IF fault
    THEN [allowed |-> FALSE, verdict |-> "error", resetAt |-> 0,
          window |-> window]
    ELSE LET r == sliding_window(now, rl.windowSizeMs, rl.limit, requested)
         IN  IF r.err
             THEN [allowed |-> FALSE, verdict |-> "error", resetAt |-> 0,
                   window |-> r.window]
             ELSE [allowed |-> r.ret = 1,
                   verdict |-> IF r.ret = 1 THEN "allowed" ELSE "denied",
                   resetAt |-> r.resetAt, window |-> r.window]

\* RedisQueueRepository.consumeTokensIfAllowed of a repository with options
\* rl; fault: evalScript rejects (connection or script failure)
consumeTokensIfAllowed(rl, requested, fault) ==
    IF rl.mode = "none"
    THEN [allowed |-> TRUE, verdict |-> "allowed", resetAt |-> 0,
          window |-> window]
    ELSE IF fault
    THEN [allowed |-> TRUE, verdict |-> "error", resetAt |-> 0,
          window |-> window]
    ELSE LET r == sliding_window(now, rl.windowSizeMs, rl.limit, requested)
         IN  IF r.err
             THEN [allowed |-> TRUE, verdict |-> "error", resetAt |-> 0,
                   window |-> r.window]
             ELSE [allowed |-> r.ret = 1,
                   verdict |-> IF r.ret = 1 THEN "allowed" ELSE "denied",
                   resetAt |-> r.resetAt, window |-> r.window]

\* fetchNext / fetchNextJobs, the branch taken when the limiter denies:
\* policy "delay" moves the next waiting job, the others do nothing
DeniedByPolicy(rl, lim) ==
    LET meta == [reason |-> "rate_limit", resetAt |-> lim.resetAt]
        nextAttempt == now + rl.delayMs
    IN  /\ IF rl.policy = "delay"
           THEN /\ Cardinality(pending) < MaxPending
                /\ moveWaitingToDelayedWithDelay(rl.delayMs, meta)
           ELSE UNCHANGED <<wz, dz, pending, due>>
        /\ last' = [verdict |-> lim.verdict, ids |-> <<>>,
                    moved |-> IF rl.policy = "delay"
                              THEN move_waiting_to_delayed(nextAttempt, meta).id
                              ELSE NoJob]

\* RedisQueueRepository.fetchNext of the repository with the limiter, from
\* the first rate check (shouldPop) or from the second one, after brpop
fetchNext(c, shouldPop, elsePc) ==
    \E fault \in BOOLEAN, hsetOk \in BOOLEAN :
        LET lim == consumeTokensIfAllowed(limiter, 1, fault) IN
        /\ window' = lim.window
        /\ IF lim.allowed
           THEN LET r == move_job(shouldPop, hsetOk) IN
                /\ FetchNextResult(c, r, elsePc)
                /\ last' = [verdict |-> lim.verdict, moved |-> NoJob,
                            ids |-> IF r.id = NoJob THEN <<>> ELSE <<r.id>>]
                /\ UNCHANGED <<dz, pending>>
           ELSE /\ DeniedByPolicy(limiter, lim)
                /\ pc' = [pc EXCEPT ![c] = "idle"]
                /\ UNCHANGED <<al, notify, hash, cur, got>>

LimitedFetchNext(c) ==
    /\ c = Direct
    /\ limiter.api = "fetchNext"
    /\ pc[c] = "idle"
    /\ \E timeout \in {0, 1} :
          fetchNext(c, TRUE, IF timeout > 0 THEN "blocked" ELSE "idle")
    /\ UNCHANGED <<lifecycle, ext, limiter, delivered, bucket, now, wl, az, buf, invocations,
                   fails>>

LimitedFetchAfterWake(c) ==
    /\ c = Direct
    /\ limiter.api = "fetchNext"
    /\ pc[c] = "woken"
    /\ fetchNext(c, FALSE, "idle")
    /\ UNCHANGED <<lifecycle, ext, limiter, delivered, bucket, now, wl, az, buf, invocations,
                   fails>>

\* RedisQueueRepository.fetchNextJobs of a repository with options rl, up
\* to the return of the script
fetchNextJobs(c, rl, count) ==
    /\ c \in Slots
    /\ pc[c] = "idle"
    /\ buf[c] = <<>>
    /\ \E fault \in BOOLEAN :
        LET lim == consumeTokensIfAllowed(rl, count, fault) IN
        /\ fault => rl.mode # "none"
        /\ window' = lim.window
        /\ IF lim.allowed
           THEN LET r == move_to_active(count, now + LockDuration) IN
                /\ wz' = r.wz
                /\ az' = r.az
                /\ IF r.err \/ r.ids = <<>>
                   THEN UNCHANGED <<pc, got, due, delivered>>
                   ELSE /\ pc' = [pc EXCEPT ![c] = "piping"]
                        /\ got' = [got EXCEPT ![c] = r.ids]
                        /\ due' = Reset(due, SeqToSet(r.ids))
                        /\ delivered' =
                              [delivered EXCEPT ![now] = @ + Len(r.ids)]
                /\ last' = [verdict |-> lim.verdict, moved |-> NoJob,
                            ids |-> IF r.err THEN <<>> ELSE r.ids]
                /\ UNCHANGED <<dz, pending>>
           ELSE /\ DeniedByPolicy(rl, lim)
                /\ UNCHANGED <<az, pc, got, delivered>>
    /\ UNCHANGED <<lifecycle, ext, limiter, bucket, now, wl, al, notify, hash, cur, buf,
                   invocations, fails>>

\* a consumer that calls fetchNextJobs on the repository with the limiter
LimitedFetchJobs(c, count) ==
    /\ limiter.api = "fetchNextJobs"
    /\ fetchNextJobs(c, limiter, count)

\* Worker.getJob: the worker's blockingQueueRepository is constructed
\* without rateLimiterOptions
WorkerFetchJobs(c) == fetchNextJobs(c, NoLimiter, Prefetch)

\* ------------------------------------------------------------ extendLock
\* RedisQueueRepository.extendLock, called by the heartbeat of a slot or by
\* any user of the repository, with the expiry the heartbeat passes
extendLock(jobId, ownerToken) ==
    /\ LET r == extend_lock(jobId, now + LockDuration, ownerToken) IN
       /\ az' = r.az
       /\ ext' = [id |-> jobId, tok |-> ownerToken, ret |-> r.ret]
    /\ UNCHANGED <<lifecycle, ratelimit, now, wz, wl, al, dz, notify, hash, pending, pc,
                   cur, buf, got, history>>

\* ------------------------------------------------------------------ Next
\* the mixed deployment: the queue scheduler, one worker and one direct
\* consumer (process deaths are part of NextWorkers)
\* ------------------------------------------------- the Worker lifecycle
\* faulty variant of Semaphore.acquire: resolves without taking a permit
acquire_free(sem, l) == sem

\* Semaphore.acquire by loop l: a permit is taken, or l joins the waiters
acquire(sem, l) ==
    IF sem.permits > 0
    THEN [sem EXCEPT !.permits = @ - 1]
    ELSE [sem EXCEPT !.waiters = Append(@, l)]

\* faulty variant of Semaphore.release: a permit is returned even when a
\* waiter is resolved
release_extra(sem) ==
    [sem EXCEPT !.waiters = IF @ # <<>> THEN Tail(@) ELSE @,
                !.permits = @ + 1]

\* Semaphore.release: the first waiter is resolved, or a permit is returned
release(sem) ==
    IF sem.waiters # <<>>
    THEN [sem EXCEPT !.waiters = Tail(@)]
    ELSE [sem EXCEPT !.permits = @ + 1]

\* loop l is among the waiters of the semaphore
Waiting(sem, l) == \E k \in 1..Len(sem.waiters) : sem.waiters[k] = l

\* the loop whose acquire the next release resolves
Woken(sem) == IF sem.waiters # <<>> THEN Head(sem.waiters) ELSE 0

\* Worker.processNext, job in hand: processingSemaphore.acquire(), and the
\* processor is invoked once the permit is there
startJob(w, l, j) ==
    LET sem == acquire(w.processingSemaphore, l) IN
    [w EXCEPT !.processingSemaphore = sem,
              !.job[l] = j,
              !.outcome[l] = "none",
              !.lpc[l] = IF Waiting(sem, l) THEN "queued" ELSE "run"]

\* Worker.processNext from the head of the while loop of loop l up to its
\* first wait: the loop ends, or Worker.getJob takes the next buffered job
\* of the slot, or it asks for the bufferLock to fetch
processNext(w, l) ==
    LET i == SlotOf(w, l)
        idle == [w EXCEPT !.job[l] = NoJob, !.outcome[l] = "none"]
    IN  IF ~w.isRunning
        THEN [idle EXCEPT !.lpc[l] = "ended"]
        ELSE IF w.jobBuffers[i] # <<>>
        THEN startJob([w EXCEPT !.jobBuffers[i] = Tail(@)], l,
                      Head(w.jobBuffers[i]))
        ELSE LET lock == acquire(w.bufferLock, l) IN
             [idle EXCEPT !.bufferLock = lock,
                          !.lpc[l] = IF Waiting(lock, l) THEN "lockwait"
                                     ELSE "fetch"]

\* the finally of Worker.getJob: bufferLock.release()
releaseLock(w) ==
    [w EXCEPT !.bufferLock = release(@),
              !.lpc = [l \in Loops |-> IF l = Woken(w.bufferLock)
                                       THEN "fetch" ELSE @[l]]]

\* the finally of Worker.processNext: processingSemaphore.release()
releasePermit(w) ==
    [w EXCEPT !.processingSemaphore = release(@),
              !.lpc = [l \in Loops |-> IF l = Woken(w.processingSemaphore)
                                       THEN "run" ELSE @[l]]]

\* the outer catch of Worker.processNext: emit("error"), which throws out
\* of the loop when the emitter has no "error" listener
emitError(w, l) ==
    IF w.errorListener
    THEN processNext(w, l)
    ELSE [w EXCEPT !.lpc[l] = "died"]

\* Worker.start, the for loop from slot i on
RECURSIVE spawn(_, _)
spawn(w, i) ==
    IF i > w.concurrency THEN w
    ELSE spawn(processNext([w EXCEPT !.jobBuffers[i] = <<>>,
                                     !.processingPromises = @ + 1],
                           w.processingPromises + 1),
               i + 1)

\* Worker.start
start ==
    /\ \/ /\ worker.isRunning
          /\ worker' = [worker EXCEPT !.startResult = "already running"]
       \/ /\ ~worker.isRunning
          /\ worker.processingPromises + worker.concurrency
                <= MaxStarts * worker.concurrency
          /\ worker' = spawn([worker EXCEPT !.isRunning = TRUE,
                                            !.startEvents = @ + 1,
                                            !.startResult = "started"], 1)
    /\ UNCHANGED <<queue, returned, ext, ratelimit, now, store, pending, pc, cur, buf, got, history>>

\* Worker.stop up to the await of the race between the slot loops and the
\* graceful shutdown timeout
stop ==
    /\ worker.stopPc # "racing"
    /\ worker.stopCalls < MaxStops
    /\ worker' = [worker EXCEPT !.isRunning = FALSE,
                                !.blockingOpen = FALSE,
                                !.stopCalls = @ + 1,
                                !.stopPc = "racing",
                                !.stopAwaits = 1..worker.processingPromises]
    /\ UNCHANGED <<queue, returned, ext, ratelimit, now, store, pending, pc, cur, buf, got, history>>

\* Worker.stop after the race: ackConnection.disconnect(), emit("stop")
finishStop(w) ==
    [w EXCEPT !.ackOpen = FALSE, !.stopEvents = @ + 1, !.stopPc = "resolved"]

\* Worker.stop, the catch after the race: emit("error"), which throws out
\* of stop when the emitter has no "error" listener
stopCatch(w) ==
    IF w.errorListener THEN finishStop(w) ELSE [w EXCEPT !.stopPc = "rejected"]

\* Worker.stop: Promise.all of the slot loops settles first
StopSettled ==
    /\ worker.stopPc = "racing"
    /\ \/ /\ \A l \in worker.stopAwaits : worker.lpc[l] = "ended"
          /\ worker' = finishStop(worker)
       \/ /\ \E l \in worker.stopAwaits : worker.lpc[l] = "died"
          /\ worker' = stopCatch(worker)
    /\ UNCHANGED <<queue, returned, ext, ratelimit, now, store, pending, pc, cur, buf, got, history>>

\* Worker.stop: the graceful shutdown timeout elapses first
StopTimeout ==
    /\ worker.stopPc = "racing"
    /\ \E l \in worker.stopAwaits : worker.lpc[l] \notin {"ended", "died"}
    /\ \A l \in worker.stopAwaits : worker.lpc[l] # "died"
    /\ worker' = stopCatch(worker)
    /\ UNCHANGED <<queue, returned, ext, ratelimit, now, store, pending, pc, cur, buf, got, history>>

\* Worker.getJob, buffer empty: fetchNextJobs on the blocking connection up
\* to the return of the move_to_active script
LoopFetchScript(l) ==
    /\ worker.lpc[l] = "fetch"
    /\ LET r == move_to_active(Prefetch, now + LockDuration)
           rejected == ~worker.blockingOpen \/ r.err
       IN  /\ wz' = IF worker.blockingOpen THEN r.wz ELSE wz
           /\ az' = IF worker.blockingOpen THEN r.az ELSE az
           /\ worker' =
                IF rejected THEN emitError(releaseLock(worker), l)
                ELSE IF r.ids = <<>>
                THEN [releaseLock(worker) EXCEPT !.lpc[l] = "sleep"]
                ELSE [worker EXCEPT !.lpc[l] = "piping", !.fetched[l] = r.ids]
    /\ UNCHANGED <<queue, returned, ext, ratelimit, now, wl, al, dz, notify, hash, pending, pc, cur, buf,
                   got, history>>

\* fetchNextJobs, the pipelined hset + hgetall; Worker.getJob hands out the
\* first job, stashes the rest and releases the bufferLock
LoopFetchPipeline(l) ==
    /\ worker.lpc[l] = "piping"
    /\ LET ids == worker.fetched[l]
           w == [worker EXCEPT !.fetched[l] = <<>>]
       IN  IF ~worker.blockingOpen
           THEN /\ worker' = emitError(releaseLock(w), l)
                /\ UNCHANGED hash
           ELSE /\ hash' = [j \in Jobs |->
                              IF j \in SeqToSet(ids)
                              THEN [hash[j] EXCEPT !.state = "active",
                                                   !.lock_owner = SlotOf(worker, l)]
                              ELSE hash[j]]
                /\ worker' = startJob(
                       releaseLock([w EXCEPT !.jobBuffers[SlotOf(worker, l)] = Tail(ids)]),
                       l, Head(ids))
    /\ UNCHANGED <<queue, returned, ext, ratelimit, now, wz, wl, az, al, dz, notify, pending, pc, cur, buf,
                   got, history>>

\* Worker.processNext, no job: the 100 ms sleep is over
LoopWake(l) ==
    /\ worker.lpc[l] = "sleep"
    /\ worker' = processNext(worker, l)
    /\ UNCHANGED <<queue, returned, ext, ratelimit, now, store, pending, pc, cur, buf, got, history>>

\* the processor resolves: CompleteJobUseCase -> markAsCompleted on the ack
\* connection, emit("completed"), finally; a rejection of markAsCompleted
\* enters the catch block
LoopProcResolve(l) ==
    /\ worker.lpc[l] = "run"
    /\ LET j == worker.job[l]
           r == complete_job(j, now)
           rejected == ~worker.ackOpen \/ r.err
       IN  /\ az' = IF worker.ackOpen THEN r.az ELSE az
           /\ dz' = IF worker.ackOpen THEN r.dz ELSE dz
           /\ hash' = IF worker.ackOpen THEN r.hash ELSE hash
           /\ worker' =
                IF rejected
                THEN [worker EXCEPT !.lpc[l] = "catch", !.outcome[l] = "resolved"]
                ELSE processNext(
                       releasePermit([worker EXCEPT !.completedEvents[j] = @ + 1]),
                       l)
    /\ UNCHANGED <<queue, returned, ext, ratelimit, now, wz, wl, al, notify, pending, pc, cur, buf, got,
                   history>>

\* the processor throws
LoopProcThrow(l) ==
    /\ worker.lpc[l] = "run"
    /\ worker' = [worker EXCEPT !.lpc[l] = "catch", !.outcome[l] = "threw"]
    /\ UNCHANGED <<queue, returned, ext, ratelimit, now, store, pending, pc, cur, buf, got, history>>

\* the catch block of Worker.processNext: FailJobUseCase -> markAsFailed on
\* the ack connection, emit("failed"), finally; a rejection of markAsFailed
\* reaches the outer catch
LoopCatch(l) ==
    /\ worker.lpc[l] = "catch"
    /\ LET j == worker.job[l]
           r == fail_job(j, now, ResolverNextAttempt)
           rejected == ~worker.ackOpen \/ r.err
       IN  /\ az' = IF worker.ackOpen THEN r.az ELSE az
           /\ dz' = IF worker.ackOpen THEN r.dz ELSE dz
           /\ hash' = IF worker.ackOpen THEN r.hash ELSE hash
           /\ worker' =
                IF rejected
                THEN emitError(releasePermit(worker), l)
                ELSE processNext(
                       releasePermit([worker EXCEPT !.failedEvents[j] = @ + 1]),
                       l)
    /\ UNCHANGED <<queue, returned, ext, ratelimit, now, wz, wl, al, notify, pending, pc, cur, buf, got,
                   history>>

\* --------------------------------------------------- the Queue lifecycle
\* a call of promoteDelayedJobs or recoverStalledJobs triggered by the
\* queue is noted when a close() has resolved before it
Called(q, name) ==
    [q EXCEPT !.lateCall = IF q.closed > 0 /\ @ = "none" THEN name ELSE @]

\* RedisQueueRepository.promoteDelayedJobs on the connection of the queue
\* up to the return of the script; the call rejects on a closed connection
promoteDelayedJobs ==
    IF queue.connection = "open"
    THEN LET r == promote_delayed_jobs(now, PromoteLimit) IN
         /\ wz' = r.wz
         /\ dz' = r.dz
         /\ notify' = r.notify
         /\ pending' = IF r.moved = <<>> THEN pending
                       ELSE pending \cup {[op |-> "promote",
                                           ids |-> SeqToSet(r.moved), t |-> now]}
    ELSE UNCHANGED <<wz, dz, notify, pending>>

\* Queue.add: AddJobUseCase.execute and RedisQueueRepository.add, which
\* for a delayed job sets the timer key, the in-process timer of the Queue
\* (delayedScheduled listener) and the timer of the repository
QueueAdd(id, priority, delay) ==
    /\ id \notin Added
    /\ queue.connection = "open"
    /\ LET score == priority * PriorityBand + (now + delay)
           isDelayed == delay > 0
           fields == [NoHash EXCEPT !.priority = priority, !.retry_count = 0,
                                    !.max_attempts = 1, !.added_at = now]
           r == add_job(id, score, isDelayed, fields)
       IN  /\ hash' = r.hash
           /\ dz' = r.dz
           /\ wz' = r.wz
           /\ notify' = r.notify
           /\ due' = IF isDelayed THEN [due EXCEPT ![id] = now + delay] ELSE due
           /\ queue' = IF isDelayed
                       THEN [queue EXCEPT !.timerKeys = @ \cup {id},
                                          !.delayedTimers = @ \cup {id},
                                          !.repositoryTimers = @ \cup {id}]
                       ELSE queue
    /\ UNCHANGED <<worker, returned, ext, ratelimit, now, wl, az, al, pending, pc, cur, buf, got,
                   invocations, fails>>

\* Queue.startScheduler, the interval callback: promoteDelayedJobs, then
\* recoverStalledJobs under the recoveringStalledJobs flag
SchedulerTick ==
    /\ queue.schedulerInterval
    /\ Cardinality(pending) < MaxPending
    /\ promoteDelayedJobs
    /\ LET r == detect_and_recover_stalled_jobs(now) IN
       IF queue.recoveringStalledJobs \/ queue.connection # "open"
       THEN UNCHANGED <<az, wl>>
       ELSE az' = r.az /\ wl' = r.wl
    /\ queue' = Called(Called(queue, "promoteDelayedJobs"), "recoverStalledJobs")
    /\ UNCHANGED <<worker, returned, ext, ratelimit, now, al, hash, pc, cur, buf, got, history>>

\* the timer key of a delayed job expires; the pmessage handler of
\* Queue.startScheduler calls promoteDelayedJobs while the subscriber lives
KeyExpired(id) ==
    /\ id \in queue.timerKeys
    /\ due[id] <= now
    /\ Cardinality(pending) < MaxPending
    /\ IF queue.subscriber
       THEN /\ promoteDelayedJobs
            /\ queue' = Called([queue EXCEPT !.timerKeys = @ \ {id}],
                               "promoteDelayedJobs")
       ELSE /\ queue' = [queue EXCEPT !.timerKeys = @ \ {id}]
            /\ UNCHANGED <<wz, dz, notify, pending>>
    /\ UNCHANGED <<worker, returned, ext, ratelimit, now, wl, az, al, hash, pc, cur, buf, got, history>>

\* the in-process timer the Queue set on delayedScheduled fires
QueueTimer(id) ==
    /\ id \in queue.delayedTimers
    /\ due[id] <= now
    /\ Cardinality(pending) < MaxPending
    /\ promoteDelayedJobs
    /\ queue' = Called([queue EXCEPT !.delayedTimers = @ \ {id}],
                       "promoteDelayedJobs")
    /\ UNCHANGED <<worker, returned, ext, ratelimit, now, wl, az, al, hash, pc, cur, buf, got, history>>

\* the timer RedisQueueRepository.add set in the repository fires
RepositoryTimer(id) ==
    /\ id \in queue.repositoryTimers
    /\ due[id] <= now
    /\ Cardinality(pending) < MaxPending
    /\ promoteDelayedJobs
    /\ queue' = Called([queue EXCEPT !.repositoryTimers = @ \ {id}],
                       "promoteDelayedJobs")
    /\ UNCHANGED <<worker, returned, ext, ratelimit, now, wl, az, al, hash, pc, cur, buf, got, history>>

\* Queue.close: the interval, the subscriber and the timers of the Queue are
\* cleared, then connection.quit(), which rejects on a closed connection
close ==
    /\ queue.closed < MaxCloses
    /\ queue' = [queue EXCEPT
                   !.schedulerInterval = FALSE,
                   !.subscriber = FALSE,
                   !.delayedTimers = {},
                   !.connection = "closed",
                   !.closeResult = IF queue.connection = "open"
                                   THEN "resolved" ELSE "rejected",
                   !.closed = @ + 1]
    /\ UNCHANGED <<worker, returned, ext, ratelimit, now, store, pending, pc, cur, buf, got, history>>

\* AddJobUseCase.execute(id, data, {attempts, backoff}) followed by
\* RedisQueueRepository.add: the job entity is built from id, data, status,
\* priority, addedAt, retryCount and maxAttempts; options.backoff is not
\* copied, so add finds no job.backoff and stores no backoff field
AddJobUseCase(id, backoff, attempts) ==
    /\ id \notin Added
    /\ LET job == [retryCount |-> 0, maxAttempts |-> attempts,
                   backoff |-> NoBackoff]
           withBackoff ==
               [NoHash EXCEPT !.retry_count = job.retryCount,
                              !.max_attempts = job.maxAttempts,
                              !.added_at = now,
                              !.backoff_type = job.backoff.type,
                              !.backoff_delay = job.backoff.delay]
           fields ==
               IF job.backoff # NoBackoff THEN withBackoff
               ELSE [NoHash EXCEPT !.retry_count = job.retryCount,
                                   !.max_attempts = job.maxAttempts,
                                   !.added_at = now]
           r == add_job(id, now, FALSE, fields)
       IN  /\ hash' = r.hash
           /\ dz' = r.dz
           /\ wz' = r.wz
           /\ notify' = r.notify
           /\ returned' = [returned EXCEPT
                             ![id] = [options |-> backoff, backoff |-> job.backoff]]
    /\ UNCHANGED <<worker, queue, ext, ratelimit, now, wl, az, al, pending, pc, cur, buf,
                   got, history>>

Next ==
    \/ \E id \in Jobs, priority \in 0..MaxPriority, delay \in 0..MaxDelay,
          attempts \in 1..MaxAttempts : AddJob(id, priority, delay, attempts)
    \/ Tick
    \/ \E c \in Mixed : TakeFromBuffer(c)
    \/ \E c \in Mixed : FetchJobsScript(c)
    \/ \E c \in Mixed : FetchJobsPipeline(c)
    \/ \E c \in Mixed : Invoke(c)
    \/ \E c \in Mixed : ProcResolve(c)
    \/ \E c \in Mixed : ProcThrow(c)
    \/ \E c \in Mixed : CatchFail(c)
    \/ \E c \in Mixed : FetchNextDenied(c)
    \/ \E c \in Mixed : FetchNextOptimistic(c)
    \/ \E c \in Mixed : BrpopToken(c)
    \/ \E c \in Mixed : BrpopTimeout(c)
    \/ \E c \in Mixed : FetchNextAfterWake(c)
    \/ \E c \in Mixed : FetchNextPipeline(c)
    \/ PromoteScript
    \/ RecoverScript
    \/ \E p \in pending : Pipeline(p)

Spec == Init /\ [][Next]_vars

\* a deployment of the queue scheduler and workers only
NextWorkers ==
    \/ \E id \in Jobs, priority \in 0..MaxPriority, delay \in 0..MaxDelay,
          attempts \in 1..MaxAttempts : AddJob(id, priority, delay, attempts)
    \/ Tick
    \/ \E c \in Slots : TakeFromBuffer(c)
    \/ \E c \in Slots : FetchJobsScript(c)
    \/ \E c \in Slots : FetchJobsPipeline(c)
    \/ \E c \in Slots : Invoke(c)
    \/ \E c \in Slots : ProcResolve(c)
    \/ \E c \in Slots : ProcThrow(c)
    \/ \E c \in Slots : CatchFail(c)
    \/ \E c \in Slots : Crash(c)
    \/ PromoteScript
    \/ RecoverScript
    \/ \E p \in pending : Pipeline(p)

SpecWorkers == Init /\ [][NextWorkers]_vars

\* a deployment of workers only, without stalled-job recovery, rate-limit
\* delays and process deaths
NextRetry ==
    \/ \E id \in Jobs, priority \in 0..MaxPriority, delay \in 0..MaxDelay,
          attempts \in 1..MaxAttempts : AddJob(id, priority, delay, attempts)
    \/ Tick
    \/ \E c \in Slots : TakeFromBuffer(c)
    \/ \E c \in Slots : FetchJobsScript(c)
    \/ \E c \in Slots : FetchJobsPipeline(c)
    \/ \E c \in Slots : Invoke(c)
    \/ \E c \in Slots : ProcResolve(c)
    \/ \E c \in Slots : ProcThrow(c)
    \/ \E c \in Slots : CatchFail(c)
    \/ PromoteScript
    \/ \E p \in pending : Pipeline(p)

SpecRetry == Init /\ [][NextRetry]_vars

\* workers that fetch and die, with the queue scheduler running: the
\* scheduler interval and the worker loops keep taking their steps
NextCrash ==
    \/ \E id \in Jobs, priority \in 0..MaxPriority, delay \in 0..MaxDelay,
          attempts \in 1..MaxAttempts : AddJob(id, priority, delay, attempts)
    \/ Tick
    \/ \E c \in Slots : FetchJobsScript(c)
    \/ \E c \in Slots : FetchJobsPipeline(c)
    \/ \E c \in Slots : Crash(c)
    \/ RecoverScript
    \/ \E p \in pending : Pipeline(p)

SpecCrash ==
    /\ Init /\ [][NextCrash]_vars
    /\ WF_vars(Tick)
    /\ WF_vars(RecoverScript)
    /\ WF_vars(\E p \in pending : Pipeline(p))
    /\ \A c \in Slots : WF_vars(FetchJobsScript(c))
    /\ \A c \in Slots : WF_vars(FetchJobsPipeline(c))

\* workers whose processors fail, with retries and promotion, and callers
\* of extendLock (priority and delay play no part in the lock)
NextLock ==
    \/ \E id \in Jobs, attempts \in 1..MaxAttempts : AddJob(id, 0, 0, attempts)
    \/ Tick
    \/ \E c \in Slots : TakeFromBuffer(c)
    \/ \E c \in Slots : FetchJobsScript(c)
    \/ \E c \in Slots : FetchJobsPipeline(c)
    \/ \E c \in Slots : Invoke(c)
    \/ \E c \in Slots : ProcThrow(c)
    \/ \E c \in Slots : CatchFail(c)
    \/ PromoteScript
    \/ \E p \in pending : Pipeline(p)
    \/ \E j \in Jobs, tok \in {NoToken} \cup Slots : extendLock(j, tok)

SpecLock == Init /\ [][NextLock]_vars

\* jobs with backoff, workers whose processors fail, and promotion
NextBackoff ==
    \/ \E id \in Jobs, type \in {"fixed", "exponential"},
          delay \in 0..MaxBackoff, attempts \in 1..MaxBackoffAttempts :
              AddWithBackoff(id, type, delay, attempts)
    \/ Tick
    \/ \E c \in Slots : TakeFromBuffer(c)
    \/ \E c \in Slots : FetchJobsScript(c)
    \/ \E c \in Slots : FetchJobsPipeline(c)
    \/ \E c \in Slots : Invoke(c)
    \/ \E c \in Slots : ProcThrow(c)
    \/ \E c \in Slots : CatchFail(c)
    \/ \E c \in Slots : FailJobResolved(c)
    \/ PromoteScript
    \/ \E p \in pending : Pipeline(p)

SpecBackoff == Init /\ [][NextBackoff]_vars

\* recurring jobs, workers whose processors succeed, and promotion
NextRepeat ==
    \/ \E id \in Jobs, every \in 1..MaxEvery, limit \in 0..MaxLimit :
          AddRecurring(id, every, limit)
    \/ Tick
    \/ \E c \in Slots : TakeFromBuffer(c)
    \/ \E c \in Slots : FetchJobsScript(c)
    \/ \E c \in Slots : FetchJobsPipeline(c)
    \/ \E c \in Slots : Invoke(c)
    \/ \E c \in Slots : ProcResolve(c)
    \/ PromoteScript
    \/ \E p \in pending : Pipeline(p)

SpecRepeat == Init /\ [][NextRepeat]_vars

\* one consumer of a repository with a sliding-window limiter
NextLimit ==
    \/ \E id \in Jobs, priority \in 0..MaxPriority : AddJob(id, priority, 0, 1)
    \/ Tick
    \/ LimitedFetchNext(Direct)
    \/ BrpopToken(Direct)
    \/ BrpopTimeout(Direct)
    \/ LimitedFetchAfterWake(Direct)
    \/ FetchNextPipeline(Direct)
    \/ \E c \in Mixed, count \in 1..Prefetch : LimitedFetchJobs(c, count)
    \/ \E c \in Mixed : FetchJobsPipeline(c)
    \/ \E c \in Mixed : TakeFromBuffer(c)
    \/ \E c \in Mixed : Invoke(c)
    \/ \E c \in Mixed : ProcResolve(c)
    \/ \E c \in Mixed : CatchFail(c)
    \/ PromoteScript
    \/ \E p \in pending : Pipeline(p)

SpecLimit == InitLimit /\ [][NextLimit]_vars

\* a Queue constructed with a rate limiter and the workers of that queue
NextQueueLimit ==
    \/ \E id \in Jobs, priority \in 0..MaxPriority, delay \in 0..MaxDelay :
          AddJob(id, priority, delay, 1)
    \/ Tick
    \/ \E c \in Slots : WorkerFetchJobs(c)
    \/ \E c \in Slots : FetchJobsPipeline(c)
    \/ \E c \in Slots : TakeFromBuffer(c)
    \/ \E c \in Slots : Invoke(c)
    \/ \E c \in Slots : ProcResolve(c)
    \/ PromoteScript
    \/ \E p \in pending : Pipeline(p)

SpecQueueLimit == InitLimit /\ [][NextQueueLimit]_vars

\* one worker with its producers: the application starts and stops it
InitLifecycle ==
    /\ InitQueue
    /\ limiter = NoLimiter
    /\ worker \in {NewWorker(e, n) : e \in BOOLEAN, n \in 1..MaxConcurrency}
    /\ queue = NewQueue
    /\ returned = [j \in Jobs |-> NoReturn]

NextLifecycle ==
    \/ \E id \in Jobs : AddJob(id, 0, 0, 1)
    \/ start
    \/ stop
    \/ StopSettled
    \/ StopTimeout
    \/ \E l \in Loops : LoopFetchScript(l)
    \/ \E l \in Loops : LoopFetchPipeline(l)
    \/ \E l \in Loops : LoopWake(l)
    \/ \E l \in Loops : LoopProcResolve(l)
    \/ \E l \in Loops : LoopProcThrow(l)
    \/ \E l \in Loops : LoopCatch(l)

SpecLifecycle == InitLifecycle /\ [][NextLifecycle]_vars

\* the same worker with the timers and promise jobs of its event loop
\* served: a settled race and an elapsed shutdown timeout are acted on
SpecLifecycleFair ==
    /\ InitLifecycle /\ [][NextLifecycle]_vars
    /\ WF_vars(StopSettled)
    /\ WF_vars(StopTimeout)

\* one Queue object with its producers: delayed jobs, the scheduler, the
\* timers and the application closing the queue
NextQueue ==
    \/ \E id \in Jobs, priority \in 0..MaxPriority, delay \in 0..MaxDelay :
          QueueAdd(id, priority, delay)
    \/ Tick
    \/ SchedulerTick
    \/ \E id \in Jobs : KeyExpired(id)
    \/ \E id \in Jobs : QueueTimer(id)
    \/ \E id \in Jobs : RepositoryTimer(id)
    \/ close
    \/ \E p \in pending : Pipeline(p)

SpecQueue == Init /\ [][NextQueue]_vars

\* producers that pass options.backoff to AddJobUseCase, workers whose
\* processors fail, and promotion
NextOptions ==
    \/ \E id \in Jobs, type \in {"fixed", "exponential"},
          delay \in 1..MaxBackoff, attempts \in 1..MaxAttempts :
              AddJobUseCase(id, [type |-> type, delay |-> delay], attempts)
    \/ Tick
    \/ \E c \in Slots : TakeFromBuffer(c)
    \/ \E c \in Slots : FetchJobsScript(c)
    \/ \E c \in Slots : FetchJobsPipeline(c)
    \/ \E c \in Slots : Invoke(c)
    \/ \E c \in Slots : ProcThrow(c)
    \/ \E c \in Slots : CatchFail(c)
    \/ PromoteScript
    \/ \E p \in pending : Pipeline(p)

SpecOptions == Init /\ [][NextOptions]_vars

\* producers, the scheduler and one client that consumes through fetchNext
\* with a timeout, blocking on the notification list
NextNotify ==
    \/ \E id \in Jobs, priority \in 0..MaxPriority, delay \in 0..MaxDelay,
          attempts \in 1..MaxAttempts : AddJob(id, priority, delay, attempts)
    \/ Tick
    \/ FetchNextOptimistic(Direct)
    \/ BrpopToken(Direct)
    \/ BrpopTimeout(Direct)
    \/ FetchNextAfterWake(Direct)
    \/ FetchNextPipeline(Direct)
    \/ Invoke(Direct)
    \/ ProcResolve(Direct)
    \/ ProcThrow(Direct)
    \/ CatchFail(Direct)
    \/ PromoteScript
    \/ \E p \in pending : Pipeline(p)

SpecNotify == Init /\ [][NextNotify]_vars

\* ------------------------------------------------ the heartbeat of a slot
\* Worker.processNext: the setInterval callback started after
\* processingSemaphore.acquire() and cleared when the processor settles; it
\* extends the lock of the job in the processor with the slot's token
Heartbeat(c) ==
    /\ c \in Slots
    /\ pc[c] = "run"
    /\ extendLock(cur[c], c)

\* the clock of a worker with heartbeatEnabled and heartbeatInterval <
\* lockDuration: no instant passes before the timers of the running
\* processors have fired in it (a further extendLock would change nothing)
HeartbeatTick ==
    /\ \A c \in Slots :
          pc[c] = "run" => extend_lock(cur[c], now + LockDuration, c).az = az
    /\ Tick

\* one worker with heartbeat enabled, and stalled recovery
NextHeartbeat ==
    \/ \E id \in Jobs : AddJob(id, 0, 0, 1)
    \/ HeartbeatTick
    \/ \E c \in Slots : TakeFromBuffer(c)
    \/ \E c \in Slots : FetchJobsScript(c)
    \/ \E c \in Slots : FetchJobsPipeline(c)
    \/ \E c \in Slots : Invoke(c)
    \/ \E c \in Slots : Heartbeat(c)
    \/ \E c \in Slots : ProcResolve(c)
    \/ \E c \in Slots : ProcThrow(c)
    \/ \E c \in Slots : CatchFail(c)
    \/ RecoverScript
    \/ \E p \in pending : Pipeline(p)

SpecHeartbeat == Init /\ [][NextHeartbeat]_vars

\* ------------------------------- the delay timers of the ack repository
\* RedisQueueRepository.markAsFailed lines 584-595: the timer found under
\* the id is cleared, a new timer is set and stored under the id
setTimer(d, jobId, ttl) ==
    LET existing == d.map[jobId]
        t == d.created + 1
    IN  [d EXCEPT !.armed = {x \in @ : x.h # existing}
                               \cup {[id |-> jobId, h |-> t, at |-> now + ttl]},
                  !.map[jobId] = t,
                  !.created = t]

\* the catch block of Worker.processNext: FailJobUseCase -> markAsFailed up
\* to the return of the fail_job script; with a retry scheduled later than
\* failedAt the call goes on to set the delay timer
MarkAsFailedScript(c) ==
    /\ c \in Slots
    /\ pc[c] = "catch"
    /\ LET r == fail_job(cur[c], now, ResolverNextAttempt)
           ttl == r.ret - now
       IN  /\ az' = r.az
           /\ dz' = r.dz
           /\ hash' = r.hash
           /\ due' = IF r.ret >= 0 THEN [due EXCEPT ![cur[c]] = r.ret] ELSE due
           /\ IF r.ret > 0 /\ ttl > 0
              THEN /\ pc' = [pc EXCEPT ![c] = "timer"]
                   /\ worker' = [worker EXCEPT !.ackTimers.ttl[c] = ttl]
                   /\ UNCHANGED cur
              ELSE /\ pc' = [pc EXCEPT ![c] = "idle"]
                   /\ cur' = [cur EXCEPT ![c] = NoJob]
                   /\ UNCHANGED worker
    /\ UNCHANGED <<queue, returned, ext, ratelimit, now, wz, wl, al, notify, pending, buf, got,
                   invocations, fails>>

\* markAsFailed after the timer key is written: the local timer is set
MarkAsFailedTimer(c) ==
    /\ c \in Slots
    /\ pc[c] = "timer"
    /\ worker.ackTimers.created < MaxTimers
    /\ worker' = [worker EXCEPT
                    !.ackTimers = setTimer(@, cur[c], worker.ackTimers.ttl[c])]
    /\ pc' = [pc EXCEPT ![c] = "idle"]
    /\ cur' = [cur EXCEPT ![c] = NoJob]
    /\ UNCHANGED <<queue, returned, ext, ratelimit, now, store, pending, buf, got, history>>

\* the timer t of the repository fires: its callback starts and calls
\* promoteDelayedJobs
TimerFires(t) ==
    /\ t \in worker.ackTimers.armed
    /\ t.at <= now
    /\ worker' = [worker EXCEPT !.ackTimers.armed = @ \ {t},
                                !.ackTimers.firing = @ \cup {t}]
    /\ UNCHANGED <<queue, returned, ext, ratelimit, now, store, pending, pc, cur, buf, got, history>>

\* the promoteDelayedJobs call of the callback of t runs its script and
\* the finally block deletes the entry stored under the job id
TimerSettles(t) ==
    /\ t \in worker.ackTimers.firing
    /\ Cardinality(pending) < MaxPending
    /\ LET r == promote_delayed_jobs(now, PromoteLimit) IN
       /\ wz' = r.wz
       /\ dz' = r.dz
       /\ notify' = r.notify
       /\ pending' = IF r.moved = <<>> THEN pending
                     ELSE pending \cup {[op |-> "promote",
                                         ids |-> SeqToSet(r.moved), t |-> now]}
    /\ worker' = [worker EXCEPT !.ackTimers.firing = @ \ {t},
                                !.ackTimers.map[t.id] = 0]
    /\ UNCHANGED <<queue, returned, ext, ratelimit, now, wl, az, al, hash, pc, cur, buf, got, history>>

\* the timers the ack repository can hold
Timers == [id : Jobs, h : 1..MaxTimers, at : 1..(MaxTime + MaxBackoff)]

\* jobs with a fixed backoff, one worker whose processors fail and whose
\* ack repository sets the retry timers, and the scheduler of the queue
NextTimers ==
    \/ \E id \in Jobs : AddWithBackoff(id, "fixed", 1, MaxBackoffAttempts)
    \/ Tick
    \/ \E c \in Slots : TakeFromBuffer(c)
    \/ \E c \in Slots : FetchJobsScript(c)
    \/ \E c \in Slots : FetchJobsPipeline(c)
    \/ \E c \in Slots : Invoke(c)
    \/ \E c \in Slots : ProcThrow(c)
    \/ \E c \in Slots : MarkAsFailedScript(c)
    \/ \E c \in Slots : MarkAsFailedTimer(c)
    \/ \E t \in Timers : TimerFires(t)
    \/ \E t \in Timers : TimerSettles(t)
    \/ PromoteScript
    \/ \E p \in pending : Pipeline(p)

SpecTimers == Init /\ [][NextTimers]_vars

\* ------------------------------------------- the token-bucket repository
\* rateLimiterOptions {rate, capacity} without mode (token-bucket), and the
\* count its consumer passes to fetchNextJobs (the prefetch)
Buckets ==
    [mode : {"token-bucket"}, rate : 1..MaxRate, capacity : 1..MaxCapacity,
     prefetch : 1..Prefetch]

InitBucket ==
    /\ InitQueue
    /\ limiter \in Buckets
    /\ worker = NewWorker(TRUE, 1)
    /\ queue = NewQueue
    /\ returned = [j \in Jobs |-> NoReturn]

\* a sorted set of timestamps after one unit of time, kept relative to now
ElapseZ(z) == [j \in DOMAIN z |-> Max(z[j] - 1, 0)]

\* the clock advances by one unit. Time is unbounded here: the timestamps
\* in the store enter the scripts only through comparisons with now and
\* differences from it, so they are kept relative to now instead of
\* letting now grow; a refill of MaxCapacity units fills any bucket
Elapse ==
    /\ dz' = ElapseZ(dz)
    /\ az' = ElapseZ(az)
    /\ bucket' = IF bucket.exists
                 THEN [bucket EXCEPT !.last = Max(@ - 1, now - MaxCapacity)]
                 ELSE bucket
    /\ UNCHANGED <<lifecycle, ext, limiter, window, last, delivered, now, wz, wl, al,
                   notify, hash, pending, pc, cur, buf, got, history>>

\* RedisQueueRepository.fetchNextJobs of the repository with the token
\* bucket, up to the return of the script: consumeTokensIfAllowed(count)
\* (permissive when the script fails), then move_to_active, or, when
\* denied, moveWaitingToDelayedWithDelay(DEFAULT_DELAY_ON_LIMIT_MS)
BucketFetchJobs(c) ==
    /\ c \in Slots
    /\ pc[c] = "idle"
    /\ buf[c] = <<>>
    /\ \E fault \in BOOLEAN :
        LET count == limiter.prefetch
            tb == token_bucket(bucket, now, count, limiter.rate,
                               limiter.capacity)
            allowed == fault \/ tb.ret = 1
        IN
        /\ bucket' = IF fault THEN bucket ELSE tb.bucket
        /\ IF allowed
           THEN LET r == move_to_active(count, now + LockDuration) IN
                /\ wz' = r.wz
                /\ az' = r.az
                /\ IF r.err \/ r.ids = <<>>
                   THEN UNCHANGED <<pc, got, due>>
                   ELSE /\ pc' = [pc EXCEPT ![c] = "piping"]
                        /\ got' = [got EXCEPT ![c] = r.ids]
                        /\ due' = Reset(due, SeqToSet(r.ids))
                /\ last' = [verdict |-> IF fault THEN "error" ELSE "allowed",
                            moved |-> NoJob,
                            ids |-> IF r.err THEN <<>> ELSE r.ids]
                /\ UNCHANGED <<dz, pending>>
           ELSE LET meta == [reason |-> "rate_limit", resetAt |-> 0] IN
                /\ Cardinality(pending) < MaxPending
                /\ moveWaitingToDelayedWithDelay(DelayOnLimit, meta)
                /\ last' = [verdict |-> "denied", ids |-> <<>>,
                            moved |-> move_waiting_to_delayed(
                                          now + DelayOnLimit, meta).id]
                /\ UNCHANGED <<az, pc, got>>
    /\ UNCHANGED <<lifecycle, ext, limiter, window, delivered, now, wl, al, notify, hash,
                   cur, buf, invocations, fails>>

\* RedisQueueRepository.promoteDelayedJobs up to the return of the script.
\* No step of this deployment reads the notification list (fetchNextJobs
\* never pops it), so its length is tracked up to MaxNotify only
BucketPromote ==
    /\ Cardinality(pending) < MaxPending
    /\ LET r == promote_delayed_jobs(now, PromoteLimit) IN
       /\ wz' = r.wz
       /\ dz' = r.dz
       /\ notify' = Min(r.notify, MaxNotify)
       /\ pending' = IF r.moved = <<>> THEN pending
                     ELSE pending \cup {[op |-> "promote",
                                         ids |-> SeqToSet(r.moved), t |-> now]}
    /\ UNCHANGED <<lifecycle, ext, ratelimit, now, wl, az, al, hash, pc, cur, buf, got, history>>

\* producers, the consumers of the repository with the token bucket, and
\* the scheduler
NextBucket ==
    \/ \E id \in Jobs : AddJob(id, 0, 0, 1)
    \/ Elapse
    \/ \E c \in Slots : BucketFetchJobs(c)
    \/ \E c \in Slots : FetchJobsPipeline(c)
    \/ \E c \in Slots : TakeFromBuffer(c)
    \/ \E c \in Slots : Invoke(c)
    \/ \E c \in Slots : ProcResolve(c)
    \/ BucketPromote
    \/ \E p \in pending : Pipeline(p)

SpecBucket == InitBucket /\ [][NextBucket]_vars

\* the same with time passing, and fetches, promoteDelayedJobs and the
\* steps of the consumers invoked again and again
SpecBucketFair ==
    /\ InitBucket /\ [][NextBucket]_vars
    /\ WF_vars(Elapse)
    /\ WF_vars(BucketPromote)
    /\ WF_vars(\E p \in pending : Pipeline(p))
    /\ \A c \in Slots :
          /\ WF_vars(BucketFetchJobs(c))
          /\ WF_vars(FetchJobsPipeline(c))
          /\ WF_vars(TakeFromBuffer(c))
          /\ WF_vars(Invoke(c))
          /\ WF_vars(ProcResolve(c))

TypeOK ==
    /\ now \in 1..MaxTime
    /\ ~(DOMAIN wz # {} /\ Len(wl) > 0)
    /\ ~(DOMAIN az # {} /\ Len(al) > 0)
    /\ notify \in Nat

\* ================================================================ claims

\* C1: every job id is a member of at most one of the waiting, delayed and
\* active sets.
C1_MutualExclusion ==
    \A j \in Jobs :
        /\ ~(InWaiting(j) /\ InDelayed(j))
        /\ ~(InWaiting(j) /\ InActive(j))
        /\ ~(InDelayed(j) /\ InActive(j))

\* C2: at no time are two processor invocations running for the same job.
Running(c) == pc[c] = "run"

C2_OneActiveOwner ==
    \A c1, c2 \in Clients :
        (c1 # c2 /\ Running(c1) /\ Running(c2)) => cur[c1] # cur[c2]

\* two slots run processors at once, one of them on a job that stalled and
\* was recovered meanwhile
C2_Witness ==
    \E c1, c2 \in Slots :
        /\ c1 # c2 /\ Running(c1) /\ Running(c2)
        /\ cur[c1] \in SeqToSet(wl)

\* C3: no job is lost: every added id is in waiting, delayed or active, or
\* its state is completed or failed.
C3_NoJobLost ==
    \A j \in Added :
        \/ InWaiting(j) \/ InDelayed(j) \/ InActive(j)
        \/ hash[j].state \in {"completed", "failed"}

\* a fetch call of client c returns job j in this step (the script popped it)
Delivers(c, j) ==
    /\ pc[c] \in {"idle", "woken"}
    /\ buf[c] = <<>>
    /\ \/ pc'[c] = "piping" /\ j \in SeqToSet(got'[c])
       \/ pc'[c] = "hold" /\ cur'[c] = j

\* the ids a fetch call of client c returns in this step, in order
Delivered(c) ==
    IF pc[c] \in {"idle", "woken"} /\ buf[c] = <<>> /\ pc'[c] = "piping"
    THEN got'[c]
    ELSE IF pc[c] \in {"idle", "woken"} /\ buf[c] = <<>> /\ pc'[c] = "hold"
    THEN <<cur'[c]>>
    ELSE <<>>

\* C4: a fetch delivers an entry of waiting to one caller only: the fetch
\* that returns a job takes its entry out of waiting in the same step, so a
\* second delivery needs the job to enter waiting again.
C4_DeliveredOnce ==
    [][\A c \in Clients : \A j \in Jobs :
          Delivers(c, j) =>
              /\ j \in DOMAIN wz
              /\ j \notin DOMAIN wz'
              /\ Len(SelectSeq(Delivered(c), LAMBDA x : x = j)) = 1]_vars

\* a job that failed, was retried and promoted is delivered a second time
C4_Witness ==
    \E c \in Clients : \E j \in SeqToSet(got[c]) :
        /\ pc[c] = "piping"
        /\ fails[j] >= 1 /\ hash[j].retry_count >= 1
        /\ j \notin DOMAIN wz

\* A is to be served before B
Before(a, b) ==
    \/ hash[a].priority < hash[b].priority
    \/ /\ hash[a].priority = hash[b].priority
       /\ hash[a].added_at < hash[b].added_at

Position(seq, x) == CHOOSE i \in 1..Len(seq) : seq[i] = x

\* C5: priority-then-FIFO: a fetch never returns a job while a job that is
\* to be served before it stays in waiting, and returns the jobs of one
\* batch in serving order.
C5_PriorityThenFifo ==
    [][\A c \in Clients : \A m \in SeqToSet(Delivered(c)) :
          \A k \in DOMAIN wz \ {m} :
              Before(k, m) =>
                  /\ k \in SeqToSet(Delivered(c))
                  /\ Position(Delivered(c), k) < Position(Delivered(c), m)]_vars

\* C6: a promoteDelayedJobs invocation at or after the due time of a job
\* that was added with a delay moves the job from delayed to waiting.
C6_DueJobPromoted ==
    [][PromoteScript =>
          \A j \in DOMAIN dz :
              (invocations[j] = 0 /\ hash[j].state = "delayed"
               /\ due[j] > hash[j].added_at /\ due[j] <= now)
                  => j \in DOMAIN wz']_vars

C10_RetryMonotoneCapped ==
    [][\A c \in Clients :
          CatchFail(c) =>
              /\ hash'[cur[c]].retry_count >= hash[cur[c]].retry_count
              /\ hash'[cur[c]].retry_count <= hash'[cur[c]].max_attempts]_vars

InNoSet(j) == ~InWaiting(j) /\ ~InDelayed(j) /\ ~InActive(j)

Held(j) == \E c \in Clients : cur[c] = j

\* C8: a job with attempts = n whose processor always fails is invoked at
\* most n times, and once the n-th failure is recorded it is in state
\* failed with retry_count = n and in none of the sets.
C8_FailedAfterNAttempts ==
    \A j \in Added :
        /\ invocations[j] <= hash[j].max_attempts
        /\ (fails[j] = hash[j].max_attempts /\ ~Held(j)) =>
              /\ invocations[j] = hash[j].max_attempts
              /\ hash[j].state = "failed"
              /\ hash[j].retry_count = hash[j].max_attempts
              /\ InNoSet(j)

\* C9: a job whose processor failed k < n times and then succeeded is in
\* state completed with retry_count = k, completed_at set, in none of the
\* sets.
C9_CompletedAfterKFailures ==
    \A j \in Added :
        (invocations[j] = fails[j] + 1 /\ fails[j] < hash[j].max_attempts
         /\ hash[j].completed_at > 0) =>
              /\ hash[j].state = "completed"
              /\ hash[j].retry_count = fails[j]
              /\ InNoSet(j)

\* C11: every job in waiting, delayed or active has
\* retry_count < max_attempts.
C11_RetryBelowMaxInSets ==
    \A j \in Added :
        (InWaiting(j) \/ InDelayed(j) \/ InActive(j)) =>
            hash[j].retry_count < hash[j].max_attempts

\* the ids whose lock expiry in active lies in the past
Stalled == {j \in DOMAIN az : az[j] <= now}

\* C12: recoverStalledJobs removes every stalled job from active, makes it
\* a member of waiting and returns exactly the stalled ids; its hash
\* pipeline adds exactly 1 to retry_count and sets state waiting.
C12_RecoverMovesStalled ==
    [][/\ RecoverScript =>
            /\ \A j \in Stalled : ~InActive(j)' /\ InWaiting(j)'
            /\ Stalled # {} =>
                  \E p \in pending' : p.op = "recover" /\ p.ids = Stalled
       /\ \A p \in pending :
            (p.op = "recover" /\ Pipeline(p)) =>
                \A j \in p.ids :
                    /\ hash'[j].retry_count = hash[j].retry_count + 1
                    /\ hash'[j].state = "waiting"]_vars

\* job j is in the hands of no client process
Orphan(j) ==
    \A c \in Clients :
        cur[c] # j /\ j \notin SeqToSet(buf[c]) /\ j \notin SeqToSet(got[c])

\* C13: a job whose taker died and whose lock expired is eventually
\* delivered again, while the scheduler and the workers keep running.
C13_CrashRecovery ==
    \A j \in Jobs :
        (j \in Stalled /\ Orphan(j)) ~> (\E c \in Slots : j \in SeqToSet(got[c]))

Tokens == {NoToken} \cup Slots

\* extendLock may succeed: the id is in active and the token is empty or
\* equals the lock_owner field
MayExtend(j, tok) ==
    InActive(j) /\ (tok = NoToken \/ hash[j].lock_owner = tok)

BackoffLaw(type, d, k) == IF type = "fixed" THEN d ELSE d * 2 ^ (k - 1)

\* C15: when a failure is retried, the delayed score minus failedAt is
\* d for fixed and d * 2^(k-1) for exponential backoff, k = retry_count
\* before the failure + 1; the resolver and the script fallback agree.
C15_BackoffLaw ==
    [][\A c \in Slots :
          (pc[c] = "catch" /\ pc'[c] = "idle"
           /\ hash'[cur[c]].state = "delayed"
           /\ hash[cur[c]].backoff_type \in {"fixed", "exponential"}) =>
              /\ dz'[cur[c]] - now =
                    BackoffLaw(hash[cur[c]].backoff_type,
                               hash[cur[c]].backoff_delay,
                               hash[cur[c]].retry_count + 1)
              /\ fail_job(cur[c], now, ResolvedNextAttempt(cur[c])).dz =
                    fail_job(cur[c], now, ResolverNextAttempt).dz]_vars

\* the second failure of an exponential job was retried with twice its
\* positive base delay
C15_Witness ==
    \E j \in DOMAIN dz :
        /\ hash[j].backoff_type = "exponential" /\ hash[j].backoff_delay > 0
        /\ hash[j].retry_count = 2 /\ hash[j].state = "delayed"
        /\ dz[j] = now + 2 * hash[j].backoff_delay

FetchStep ==
    \/ LimitedFetchNext(Direct)
    \/ LimitedFetchAfterWake(Direct)
    \/ \E c \in Slots, count \in 1..Prefetch : LimitedFetchJobs(c, count)

\* C17: a fetch whose limiter script raised an error moves no job to
\* delayed and, when a job is waiting, returns the lowest-score waiting
\* job(s), which leave the waiting set.
C17_FailOpen ==
    [][(FetchStep /\ last'.verdict = "error") =>
          /\ dz' = dz
          /\ pending' = pending
          /\ last'.moved = NoJob
          /\ DOMAIN wz # {} =>
                /\ last'.ids # <<>>
                /\ \A i \in SeqToSet(last'.ids) :
                      /\ i \in DOMAIN wz /\ i \notin DOMAIN wz'
                      /\ \A j \in DOMAIN wz \ SeqToSet(last'.ids) :
                            wz[i] <= wz[j]]_vars

\* the limiter script raised an error and the fetch returned two jobs
C17_Witness == last.verdict = "error" /\ Len(last.ids) = 2

\* C18: with policy delay a denied fetch returns nothing and moves the
\* lowest-score waiting job to delayed at now + delayMs, and the hash
\* update of that job writes state=delayed with delayed_meta holding
\* reason=rate_limit and rate_limit_reset_at.
C18_DelayOnDeny ==
    [][/\ (FetchStep /\ last'.verdict = "denied" /\ limiter.policy = "delay") =>
             /\ last'.ids = <<>>
             /\ DOMAIN wz # {} =>
                   LET j == ZMin(wz, DOMAIN wz) IN
                   /\ last'.moved = j
                   /\ j \notin DOMAIN wz'
                   /\ j \in DOMAIN dz' /\ dz'[j] = now + limiter.delayMs
       /\ \A p \in pending :
             (p.op = "delay" /\ Pipeline(p)) =>
                 \A j \in p.ids :
                     /\ hash'[j].state = "delayed"
                     /\ hash'[j].delayed_meta.reason = "rate_limit"
                     /\ hash'[j].delayed_meta.resetAt > 0]_vars

\* C19: with policy reject or enqueue a denied fetch returns nothing and
\* changes neither waiting, delayed, active, the notify list nor a job
\* hash: not in the denying step and not earlier in the same call (a call
\* denied at its second rate check has come through brpop).
C19_RejectFrame ==
    [][(FetchStep /\ last'.verdict = "denied"
        /\ limiter.policy \in {"reject", "enqueue"}) =>
          /\ last'.ids = <<>>
          /\ UNCHANGED <<wz, wl, az, al, dz, notify, hash>>
          /\ pc[Direct] # "woken"]_vars

RECURSIVE DeliveredIn(_, _)
\* the jobs delivered to workers in the windowSizeMs-wide window ending at t
DeliveredIn(t, width) ==
    IF width = 0 \/ t = 0 THEN 0 ELSE delivered[t] + DeliveredIn(t - 1, width - 1)

\* C20: with a sliding-window limiter configured on the queue, the jobs
\* delivered to its workers within any window of windowSizeMs never
\* exceed limit.
C20_WorkersRateLimited ==
    \A t \in Times : DeliveredIn(t, limiter.windowSizeMs) <= limiter.limit

\* no client is between a script call and its pipelined hash update
Quiescent == pending = {} /\ \A c \in Clients : pc[c] # "piping"

\* C21: whenever no client is between a script and its hash update, the
\* state field of every job in waiting, delayed or active names the set
\* that holds it.
C21_StateMatchesSet ==
    Quiescent =>
        \A j \in Jobs :
            /\ InWaiting(j) => hash[j].state = "waiting"
            /\ InDelayed(j) => hash[j].state = "delayed"
            /\ InActive(j) => hash[j].state = "active"

C23_OneOutcome ==
    \A l \in Loops :
        /\ worker.lpc[l] = "catch" => worker.outcome[l] = "threw"
        /\ worker.job[l] # NoJob =>
              worker.completedEvents[worker.job[l]]
                + worker.failedEvents[worker.job[l]] <= 1

\* the loops whose processor invocation is running, and the loops between
\* processingSemaphore.acquire() and the release() of the finally
Processing == {l \in Loops : worker.lpc[l] = "run"}
HoldingPermit == {l \in Loops : worker.lpc[l] \in {"run", "catch"}}
Queued == {l \in Loops : worker.lpc[l] = "queued"}

\* C24: in one worker at most `concurrency` processor invocations run at the
\* same time, whatever the prefetch: every running invocation holds one of
\* the `concurrency` permits of the processing semaphore, a loop that found
\* no permit is among the waiters, and loops wait only when no permit is
\* left, so that the next job starts only once a permit was released.
C24_ConcurrencyBound ==
    /\ Cardinality(Processing) <= worker.concurrency
    /\ Cardinality(HoldingPermit) + worker.processingSemaphore.permits
          = worker.concurrency
    /\ \A l \in Queued : Waiting(worker.processingSemaphore, l)
    /\ Queued # {} => worker.processingSemaphore.permits = 0

\* prefetch is larger than concurrency and the worker has more jobs in hand
\* than permits: every permit is taken by a running processor while a
\* prefetched job sits in a slot buffer
C24_Witness ==
    /\ Prefetch > worker.concurrency
    /\ Cardinality(Processing) = worker.concurrency
    /\ worker.processingSemaphore.permits = 0
    /\ \E i \in WSlots : worker.jobBuffers[i] # <<>>

\* the slot loops that have not returned
LiveLoops == {l \in Loops : worker.lpc[l] \notin {"none", "ended", "died"}}

C26_StopTerminates ==
    (worker.stopPc = "racing") ~> (worker.stopPc = "resolved" /\ worker.stopEvents > 0)

\* C27: after Queue.close() has resolved the queue triggers no further
\* promoteDelayedJobs or recoverStalledJobs call: the periodic tick, the
\* expiration subscription and the in-process delay timers are stopped.
C27_ClosedQueueIsQuiet == queue.lateCall = "none"

\* C28: a job added through AddJobUseCase.execute with options.backoff
\* carries that backoff: the returned job has it, the hash stores
\* backoff_type and backoff_delay, and a failure with attempts left puts the
\* job in delayed no earlier than the configured delay after the failure.
C28_BackoffCarried ==
    \A j \in Added :
        returned[j].options # NoBackoff =>
            /\ returned[j].backoff = returned[j].options
            /\ hash[j].backoff_type = returned[j].options.type
            /\ hash[j].backoff_delay = returned[j].options.delay
            /\ (InDelayed(j) /\ hash[j].retry_count > 0) =>
                  dz[j] >= hash[j].added_at + returned[j].options.delay

\* a step of RedisQueueRepository.add
AddStep ==
    \E id \in Jobs, priority \in 0..MaxPriority, delay \in 0..MaxDelay,
       attempts \in 1..MaxAttempts : AddJob(id, priority, delay, attempts)

\* C29: add of a non-delayed job and promotion push exactly one token onto
\* the notify list for every job they bring into waiting, add of a delayed
\* job pushes none; so whenever a job has become waiting that way a token is
\* there for a client blocked in the notify wait of fetchNext.
C29_NotifyOnWaiting ==
    [][(AddStep \/ PromoteScript) =>
          LET entered == DOMAIN wz' \ DOMAIN wz IN
          /\ notify' = notify + Cardinality(entered)
          /\ AddStep => \A j \in DOMAIN dz' \ DOMAIN dz : j \notin entered
          /\ PromoteScript => entered \subseteq DOMAIN dz
          /\ entered # {} => notify' > 0]_vars

\* a client is blocked in the notify wait of fetchNext while a promoted job
\* (score 0) is waiting, and the token pushed for it is there to wake it
C29_Witness ==
    /\ pc[Direct] = "blocked"
    /\ notify > 0
    /\ \E j \in DOMAIN wz : wz[j] = 0 /\ due[j] > 0 /\ due[j] <= now

\* the job has reached a terminal state
Terminal(j) == hash[j].state \in {"completed", "failed"}

\* C30: terminal states are absorbing for non-recurring jobs: once the state
\* of a job is completed or failed, no step changes its state or makes it a
\* member of waiting, delayed or active.
C30_TerminalAbsorbing ==
    [][\A j \in Jobs :
          (Terminal(j) /\ hash[j].repeat_every = 0) =>
              /\ hash'[j].state = hash[j].state
              /\ j \notin DOMAIN wz' \cup DOMAIN dz' \cup DOMAIN az'
              /\ j \notin SeqToSet(wl') \cup SeqToSet(al')]_vars

\* slot c no longer holds the lock of the job in its hand: the id is not in
\* active, or its lock_owner is another slot
LostLock(c) == ~InActive(cur[c]) \/ hash[cur[c]].lock_owner # c

\* C31: markAsCompleted and markAsFailed called for a job that is not in
\* active, or whose active entry belongs to another worker, leave waiting,
\* delayed, active and the state and retry_count of the job unchanged.
C31_StaleAckFrame ==
    [][\A c \in Slots :
          ((ProcResolve(c) \/ CatchFail(c)) /\ LostLock(c)) =>
              /\ UNCHANGED <<wz, wl, dz, az, al>>
              /\ hash'[cur[c]].state = hash[cur[c]].state
              /\ hash'[cur[c]].retry_count = hash[cur[c]].retry_count]_vars


\* the ids in active whose lock expiry is not yet in the past at time now
LockValid == {j \in DOMAIN az : az[j] >= now}

\* C32: recoverStalledJobs called at time now never recovers a job whose
\* active score is >= now: the job stays in active with the same score and
\* is not among the ids whose retry_count and state the call rewrites.
C32_ValidLockNotRecovered ==
    [][RecoverScript =>
          \A j \in LockValid :
              /\ InActive(j)' /\ az'[j] = az[j]
              /\ \A p \in pending' \ pending : j \notin p.ids]_vars

\* slot c has job j in hand: in its prefetch buffer, waiting for the
\* processing semaphore, in the processor or in the catch block
InHand(c, j) ==
    \/ j \in SeqToSet(buf[c])
    \/ cur[c] = j /\ pc[c] \in {"hold", "run", "catch"}

\* C33: with the heartbeat running, stalled recovery never takes out of
\* active a job that a live slot has in hand and has not completed or failed.
C33_HeartbeatKeepsLock ==
    [][RecoverScript =>
          \A c \in Slots, j \in Jobs :
              (InHand(c, j) /\ InActive(j)) => InActive(j)']_vars

\* job j holds a lock at time t: it is in the active sorted set with a
\* lock expiry that has not passed
HoldsLock(j, t) == j \in DOMAIN az /\ az[j] >= t

\* C34: a job delivered by fetchNext holds, at the moment of delivery, a
\* lock that has not expired, and a recoverStalledJobs call made at the
\* delivery timestamp leaves it in active.
C34_FetchNextDeliversLocked ==
    [][\A j \in Jobs :
          Delivers(Direct, j) =>
              /\ HoldsLock(j, now)'
              /\ j \in DOMAIN detect_and_recover_stalled_jobs(now)'.az]_vars

\* C35: a repository holds at most one pending delay timer per job id, and
\* the callback of a timer that fired removes from the map only the entry
\* that holds its own handle: an entry set meanwhile for the same id stays.
C35_OneTimerPerId ==
    [][/\ \A j \in Jobs :
             Cardinality({t \in worker'.ackTimers.armed : t.id = j}) <= 1
       /\ \A t \in worker.ackTimers.firing :
             (TimerSettles(t) /\ worker.ackTimers.map[t.id] # t.h) =>
                 worker'.ackTimers.map[t.id] = worker.ackTimers.map[t.id]]_vars

\* C36: the notify list is never longer than the number of ids in waiting.
C36_NotifyBounded == notify <= Cardinality({j \in Jobs : InWaiting(j)})

\* C37: with a token-bucket limiter on the fetching repository, whatever the
\* rate, the capacity and the fetch count, every waiting job is eventually
\* in active (delivered by a fetch) while fetches and promotions go on.
C37_WaitingEventuallyDelivered ==
    \A j \in Jobs : InWaiting(j) ~> InActive(j)

\* the tokens the bucket holds at time now once the refill is applied
Refilled ==
    LET tokens == IF bucket.exists THEN bucket.tokens ELSE limiter.capacity
        lastAt == IF bucket.exists THEN bucket.last ELSE now
    IN  Min(limiter.capacity, tokens + Max(0, now - lastAt) * limiter.rate)

\* C40: the token bucket always holds between 0 and capacity tokens; a
\* call is allowed iff the refilled count is at least the requested count
\* and then takes exactly that many tokens; a denied call takes none.
C40_TokenBucket ==
    [][/\ bucket'.exists =>
             bucket'.tokens >= 0 /\ bucket'.tokens <= limiter.capacity
       /\ \A c \in Slots :
             BucketFetchJobs(c) =>
                 /\ last'.verdict = "allowed" =>
                       /\ Refilled >= limiter.prefetch
                       /\ bucket'.tokens = Refilled - limiter.prefetch
                 /\ last'.verdict = "denied" =>
                       /\ Refilled < limiter.prefetch
                       /\ bucket'.tokens = Refilled]_vars

\* a call was denied with tokens in the bucket, which it left there
C40_Witness ==
    /\ last.verdict = "denied"
    /\ bucket.exists /\ bucket.tokens > 0
    /\ bucket.tokens < limiter.capacity

\* the events of the sliding-window key that lie inside the window ending
\* at now (what ZREMRANGEBYSCORE leaves), and the number of events of a key
InWindow ==
    [u \in DOMAIN window |->
        IF u <= now - limiter.windowSizeMs THEN 0 ELSE window[u]]

Recorded(w) == ZCARD(w, MaxTime)

\* the token counts the consumers of the repository request: fetchNext
\* asks for one, fetchNextJobs for its count
Requests == IF limiter.api = "fetchNext" THEN {1} ELSE 1..Prefetch

\* C39: the events recorded inside the current window never exceed limit;
\* a call (on a working connection) is allowed iff count + requested <=
\* limit after the purge, an allowed call records exactly requested events
\* and a denied call records none.
C39_SlidingWindow ==
    /\ Recorded(InWindow) <= limiter.limit
    /\ \A requested \in Requests :
          LET lim == consumeTokensIfAllowed(limiter, requested, FALSE)
              current == Recorded(InWindow)
          IN  /\ lim.allowed <=> current + requested <= limiter.limit
              /\ lim.allowed => Recorded(lim.window) = current + requested
              /\ ~lim.allowed => lim.window = InWindow

\* the loops of the worker whose fetchNextJobs call is in flight (script
\* or pipeline outstanding, bufferLock held)
Fetching(w) == {l \in Loops : w.lpc[l] \in {"fetch", "piping"}}

\* the places of the worker that hold job j after loop l took its fetch
\* result: the hand of l, and the slot buffers
Places(w, l, j) ==
    (IF w.job[l] = j THEN {"hand"} ELSE {})
        \cup {i \in WSlots : j \in SeqToSet(w.jobBuffers[i])}

\* C38: at most one fetchNextJobs call of the worker is in flight at any
\* time, and every job the call returns goes to exactly one place: the
\* hand of the calling slot or one slot buffer.
C38_OneFetchInFlight ==
    [][/\ Cardinality(Fetching(worker')) <= 1
       /\ \A l \in Loops :
             (LoopFetchPipeline(l) /\ worker.blockingOpen) =>
                 \A j \in SeqToSet(worker.fetched[l]) :
                     Cardinality(Places(worker', l, j)) = 1]_vars

\* a fetch that returned two jobs is in flight while another slot, whose
\* buffer is empty too, waits for the bufferLock
C38_Witness ==
    \E l1, l2 \in Loops :
        /\ worker.lpc[l1] = "piping" /\ Len(worker.fetched[l1]) = 2
        /\ worker.lpc[l2] = "lockwait"
====
